---------------------------- MODULE Spec2Model ----------------------------
(***************************************************************************)
(* A model of kingdb's storage engine (src/storage/storage_engine.h):      *)
(* FileResourceManager, LogfileManager and StorageEngine.                  *)
(*                                                                         *)
(* Sizes are counted in abstract units: a file header, an entry header and *)
(* a key each take one unit, a value takes size_value units.  A location   *)
(* (fileid << 32 | offset) is the pair <<fileid, offset>>; location 0 is   *)
(* <<0, 0>>.  A std::multimap<hash, location> is a function from hashes to *)
(* the sequence of locations of that hash, in insertion order (C++11 keeps *)
(* the insertion order of equivalent keys).  Compression is off            *)
(* (size_value_compressed = 0), so size_value_used() = size_value.         *)
(***************************************************************************)
EXTENDS Integers, Sequences, FiniteSets, TLC

(***************************************************************************)
(* Bounds of the model.                                                    *)
(***************************************************************************)
MaxOrders == 2
MaxOrdersStore == 3
MaxBatch == 2
MaxCompactions == 1
MaxReopens == 1
MaxReopensRecover == 2
MaxSnapshots == 1
MaxOrdersThreads == 1
MaxOrdersCompactions == 4
MaxCompactionsRepeated == 2
MaxIgnored == 1
MaxOrdersSnapshot == 4
MaxOrdersReadOnly == 2
MaxOrdersChunks == 3

(***************************************************************************)
(* Program constants, scaled to the unit sizes above.                      *)
(***************************************************************************)
SIZE_LOGFILE_HEADER == 1
SIZE_LOGFILE_TOTAL == 6
SizeEntryHeader == 1
SizeKey == 1
SizeFooterFixed == 1
SizeFooterIndex == 1

Keys == {"k1", "k2", "k3"}
Tids == {"t1"}
Hashes == {1, 2}

\* hash_->HashFunction: k1 and k2 collide.
HashFunction(key) == IF key = "k3" THEN 2 ELSE 1

NoLocation == <<0, 0>>
Location(fileid, offset) == <<fileid, offset>>
FileIdOf(location) == location[1]
OffsetOf(location) == location[2]

EmptyIndex == [h \in Hashes |-> <<>>]

\* std::multimap::insert of one pair.
IndexInsert(index, hashed_key, location) ==
  [index EXCEPT ![hashed_key] = Append(@, location)]

\* std::map operator[] on a key that may be missing: the default value.
Lookup(f, k, default) == IF k \in DOMAIN f THEN f[k] ELSE default

\* std::map operator[] assignment.
Assign(f, k, v) == [x \in DOMAIN f \cup {k} |-> IF x = k THEN v ELSE f[x]]

\* std::map::erase(key).
Erase(f, k) == [x \in DOMAIN f \ {k} |-> f[x]]

EmptyMap == [x \in {} |-> 0]

Max(a, b) == IF a >= b THEN a ELSE b


(***************************************************************************)
(* Orders (kingdb/common.h, not part of src/): the predicates of struct    *)
(* Order, for an uncompressed value.                                       *)
(***************************************************************************)
IsFirstChunk(order) == order.offset_chunk = 0

IsLastChunk(order) == order.size_chunk + order.offset_chunk = order.size_value

IsSelfContained(order) == IsFirstChunk(order) /\ IsLastChunk(order)

\* crc32c::Combine(crc32_header, crc32_keyvalue, length): the result is the
\* checksum RecoverFile recomputes over header, key and value only if the
\* second argument is the checksum of exactly the key and value bytes.
Combine(crc32_keyvalue) == IF crc32_keyvalue = "keyvalue" THEN "valid" ELSE "invalid"

(***************************************************************************)
(* Files on disk.                                                          *)
(***************************************************************************)
NoHeader == [written |-> FALSE, filetype |-> "none", timestamp |-> 0]

NoFooter ==
  [written |-> FALSE, filetype |-> "none", offset_indexes |-> 0, index |-> <<>>,
   has_padding_in_values |-> FALSE, has_invalid_entries |-> FALSE]

\* open(O_WRONLY|O_CREAT) of a path that does not exist.
EmptyFile == [header |-> NoHeader, entries |-> <<>>, footer |-> NoFooter, size |-> 0]

\* The bytes an entry occupies: size_header + size_key + size_value_offset().
EntrySize(entry) == SizeEntryHeader + SizeKey + entry.size_value

FileOf(files, fileid) == IF fileid \in DOMAIN files THEN files[fileid] ELSE EmptyFile

\* A write through a descriptor: it reaches the directory only while the
\* path is still linked.
PutFile(files, fileid, file) ==
  IF fileid \in DOMAIN files THEN [files EXCEPT ![fileid] = file] ELSE files

(***************************************************************************)
(* FileResourceManager.                                                    *)
(***************************************************************************)
NewFileResourceManager ==
  [filesizes |-> EmptyMap, largefiles |-> {}, compactedfiles |-> {},
   num_writes_in_progress |-> EmptyMap, logindexes |-> EmptyMap,
   has_padding_in_values |-> {}]

ResetDataForFileId(frm, fileid) ==
  [frm EXCEPT !.num_writes_in_progress = Erase(@, fileid),
              !.logindexes = Erase(@, fileid),
              !.has_padding_in_values = @ \ {fileid}]

GetFileSize(frm, fileid) == Lookup(frm.filesizes, fileid, 0)

SetFileSize(frm, fileid, filesize) ==
  [frm EXCEPT !.filesizes = Assign(@, fileid, filesize)]

IsFileLarge(frm, fileid) == fileid \in frm.largefiles

SetFileLarge(frm, fileid) == [frm EXCEPT !.largefiles = @ \cup {fileid}]

IsFileCompacted(frm, fileid) == fileid \in frm.compactedfiles

SetFileCompacted(frm, fileid) == [frm EXCEPT !.compactedfiles = @ \cup {fileid}]

GetNumWritesInProgress(frm, fileid) == Lookup(frm.num_writes_in_progress, fileid, 0)

SetNumWritesInProgress(frm, fileid, inc) ==
  [frm EXCEPT !.num_writes_in_progress =
     Assign(@, fileid, Lookup(@, fileid, 0) + inc)]

GetLogIndex(frm, fileid) == Lookup(frm.logindexes, fileid, <<>>)

AddLogIndex(frm, fileid, p) ==
  [frm EXCEPT !.logindexes = Assign(@, fileid, Append(Lookup(@, fileid, <<>>), p))]

HasPaddingInValues(frm, fileid) == fileid \in frm.has_padding_in_values

SetHasPaddingInValues(frm, fileid, flag) ==
  [frm EXCEPT !.has_padding_in_values =
     IF flag THEN @ \cup {fileid} ELSE @ \ {fileid}]

(***************************************************************************)
(* LogfileManager.  A manager is a record of its members; the operators    *)
(* below take and return a pair s = [lm, files] of a manager and the files *)
(* of the directory that carry its prefix.                                 *)
(***************************************************************************)
NewLogfileManager(filetype_default) ==
  [is_closed |-> FALSE, exited |-> FALSE, filetype_default |-> filetype_default,
   has_file |-> FALSE, fileid |-> 0, timestamp |-> 0,
   sequence_fileid |-> 0, sequence_timestamp |-> 0,
   is_locked_sequence_timestamp |-> FALSE,
   offset_start |-> 0, offset_end |-> 0,
   buffer_has_items |-> FALSE, buffer_raw |-> <<>>,
   buffers_freed |-> 0,      \* the times delete[] ran on buffer_raw_ and buffer_index_
   file_resource_manager |-> NewFileResourceManager,
   key_to_location |-> EmptyMap, key_to_headersize |-> EmptyMap]

size_block == SIZE_LOGFILE_TOTAL

IncrementSequenceTimestamp(lm, inc) ==
  IF lm.is_locked_sequence_timestamp THEN lm
  ELSE [lm EXCEPT !.sequence_timestamp = @ + inc]

LockSequenceTimestamp(lm, seq) ==
  [lm EXCEPT !.is_locked_sequence_timestamp = TRUE, !.sequence_timestamp = seq]

\* OpenNewFile, its two increments: each takes and releases the mutex of its
\* sequence.
OpenNewFileIncrement(lm) ==
  IncrementSequenceTimestamp([lm EXCEPT !.sequence_fileid = @ + 1], 1)

\* OpenNewFile, the rest: GetSequenceFileId and GetSequenceTimestamp read the
\* sequences again, the file of that fileid is opened with O_CREAT.
OpenNewFileGet(s) ==
  [lm |-> [s.lm EXCEPT !.has_file = TRUE,
                       !.fileid = s.lm.sequence_fileid,
                       !.timestamp = s.lm.sequence_timestamp,
                       !.offset_start = 0,
                       !.offset_end = SIZE_LOGFILE_HEADER,
                       !.buffer_raw = <<>>],
   files |-> IF s.lm.sequence_fileid \in DOMAIN s.files THEN s.files
             ELSE Assign(s.files, s.lm.sequence_fileid, EmptyFile)]

\* OpenNewFile with no other thread in between.
OpenNewFile(s) ==
  OpenNewFileGet([s EXCEPT !.lm = OpenNewFileIncrement(s.lm)])

\* size_out of WriteLogIndex.
SizeLogIndex(logindex_current) == Len(logindex_current) * SizeFooterIndex + SizeFooterFixed

WriteLogIndex(file, logindex_current, filetype, has_padding_in_values, has_invalid_entries) ==
  [file EXCEPT !.footer = [written |-> TRUE, filetype |-> filetype,
                           offset_indexes |-> file.size,
                           index |-> logindex_current,
                           has_padding_in_values |-> has_padding_in_values,
                           has_invalid_entries |-> has_invalid_entries],
               !.size = file.size + SizeLogIndex(logindex_current)]

FlushLogIndex(s) ==
  LET lm == s.lm
      frm == lm.file_resource_manager
      fileid == lm.fileid
  IN IF ~lm.has_file THEN s
     ELSE IF GetNumWritesInProgress(frm, fileid) = 0
     THEN [lm |-> [lm EXCEPT !.file_resource_manager =
                     SetFileSize(frm, fileid,
                       GetFileSize(frm, fileid) + SizeLogIndex(GetLogIndex(frm, fileid)))],
           files |-> PutFile(s.files, fileid,
                       WriteLogIndex(FileOf(s.files, fileid), GetLogIndex(frm, fileid),
                                     lm.filetype_default,
                                     HasPaddingInValues(frm, fileid), FALSE))]
     ELSE s

CloseCurrentFile(s) ==
  IF ~s.lm.has_file THEN s
  ELSE [FlushLogIndex(s) EXCEPT !.lm.buffer_has_items = FALSE, !.lm.has_file = FALSE]

\* write(fd_, buffer_raw_ + offset_start_, offset_end_ - offset_start_): the
\* file header is in the buffer while offset_start_ is 0.
WriteBuffer(lm, file) ==
  [file EXCEPT !.header = IF lm.offset_start = 0
                          THEN [written |-> TRUE, filetype |-> lm.filetype_default,
                                timestamp |-> lm.timestamp]
                          ELSE @,
               !.entries = @ \o lm.buffer_raw,
               !.size = Max(@, lm.offset_end)]

\* FlushCurrentFile, the write of the buffer.
FlushBuffer(s) ==
  IF s.lm.buffer_has_items
  THEN [lm |-> [s.lm EXCEPT !.file_resource_manager =
                              SetFileSize(@, s.lm.fileid, s.lm.offset_end),
                            !.offset_start = s.lm.offset_end,
                            !.buffer_has_items = FALSE,
                            !.buffer_raw = <<>>],
        files |-> PutFile(s.files, s.lm.fileid,
                          WriteBuffer(s.lm, FileOf(s.files, s.lm.fileid)))]
  ELSE s

\* FlushCurrentFile, the padding: ftruncate to offset_end_ + padding.
FlushPadding(s, padding) ==
  IF padding # 0
  THEN [lm |-> [s.lm EXCEPT !.offset_end = @ + padding,
                            !.offset_start = s.lm.offset_end + padding,
                            !.file_resource_manager =
                              SetFileSize(@, s.lm.fileid, s.lm.offset_end + padding)],
        files |-> PutFile(s.files, s.lm.fileid,
                    [FileOf(s.files, s.lm.fileid) EXCEPT
                       !.size = s.lm.offset_end + padding])]
  ELSE s

\* FlushCurrentFile, the end: the file is closed if it is full or if a new
\* file is forced and the file holds more than its header.
FlushClose(s, force_new_file) ==
  IF s.lm.offset_end >= size_block
     \/ (force_new_file /\ s.lm.offset_end > SIZE_LOGFILE_HEADER)
  THEN CloseCurrentFile(
         [s EXCEPT !.lm.file_resource_manager =
                     SetFileSize(@, s.lm.fileid, s.lm.offset_end)])
  ELSE s

FlushCurrentFile(s, force_new_file, padding) ==
  IF ~s.lm.has_file THEN s
  ELSE FlushClose(FlushPadding(FlushBuffer(s), padding), force_new_file)

\* The entry of `file` that starts at `offset`, as a set (empty: no entry
\* starts there).
EntriesAt(file, offset) ==
  {file.entries[i] : i \in {j \in 1..Len(file.entries) : file.entries[j].offset = offset}}

\* pwrite() into the entry that starts at `offset`.
ReplaceEntryAt(file, offset, entry) ==
  [file EXCEPT !.entries =
     [i \in 1..Len(@) |-> IF @[i].offset = offset THEN entry ELSE @[i]]]

WriteFirstChunkLargeOrder(s, order, hashed_key) ==
  LET lm1 == IncrementSequenceTimestamp(
               [s.lm EXCEPT !.sequence_fileid = @ + 1], 1)
      fileid_largefile == lm1.sequence_fileid
      timestamp_largefile == lm1.sequence_timestamp
      size_header == SizeEntryHeader
      entry == [offset |-> SIZE_LOGFILE_HEADER, type |-> "put", key |-> order.key,
                hash |-> hashed_key, size_value |-> order.size_value,
                value |-> order.value, bytes |-> order.size_chunk,
                crc32 |-> "zero", has_padding |-> FALSE]
      filesize == SIZE_LOGFILE_HEADER + size_header + SizeKey + order.size_value
      file == [header |-> [written |-> TRUE, filetype |-> "large",
                           timestamp |-> timestamp_largefile],
               entries |-> <<entry>>, footer |-> NoFooter, size |-> filesize]
      frm == SetNumWritesInProgress(
               SetFileSize(lm1.file_resource_manager, fileid_largefile, filesize),
               fileid_largefile, 1)
  IN [s |-> [lm |-> [lm1 EXCEPT !.file_resource_manager = frm,
                                !.key_to_headersize =
                                  Assign(@, <<order.tid, order.key>>, size_header)],
             files |-> Assign(s.files, fileid_largefile, file)],
      location |-> Location(fileid_largefile, SIZE_LOGFILE_HEADER)]

\* pwrite() of `order`'s chunk, and of the rewritten header if it is the last
\* chunk, at an entry that starts at offset_file.  Where no entry starts
\* there, the bytes overwrite whatever the file holds at that offset: a
\* footer that starts at or before it no longer decodes.
PwriteChunk(file, offset_file, order) ==
  LET found == EntriesAt(file, offset_file)
      entry == CHOOSE e \in found : TRUE
      entry1 == [entry EXCEPT !.bytes = IF order.offset_chunk = @
                                        THEN @ + order.size_chunk ELSE @]
      entry2 == IF IsLastChunk(order)
                THEN [entry1 EXCEPT !.crc32 = Combine(order.crc32), !.has_padding = FALSE]
                ELSE entry1
  IN IF found # {} THEN ReplaceEntryAt(file, offset_file, entry2)
     ELSE IF file.footer.written /\ file.footer.offset_indexes <= offset_file
     THEN [file EXCEPT !.footer = NoFooter,
                       !.size = Max(@, offset_file + SizeEntryHeader + SizeKey
                                       + order.offset_chunk + order.size_chunk)]
     ELSE file

\* The last-chunk part of WriteChunk: the footer is appended if the file is
\* not the active one and no write to it is left in progress.
WriteLastChunk(lm, file, fileid, is_large_order) ==
  LET frm1 == SetNumWritesInProgress(lm.file_resource_manager, fileid, -1)
      num_writes == GetNumWritesInProgress(frm1, fileid)
      logindex == GetLogIndex(frm1, fileid)
      filetype == IF is_large_order THEN "large" ELSE lm.filetype_default
      frm2 == SetFileSize(frm1, fileid, GetFileSize(frm1, fileid) + SizeLogIndex(logindex))
      frm3 == IF is_large_order THEN SetFileLarge(frm2, fileid) ELSE frm2
  IN IF fileid # lm.fileid /\ num_writes = 0
     THEN [frm |-> ResetDataForFileId(frm3, fileid),
           file |-> WriteLogIndex(file, logindex, filetype,
                                  HasPaddingInValues(frm1, fileid), FALSE)]
     ELSE [frm |-> frm1, file |-> file]

WriteChunk(s, order, hashed_key, location, is_large_order) ==
  LET fileid == FileIdOf(location)
      file1 == PwriteChunk(FileOf(s.files, fileid), OffsetOf(location), order)
      last == WriteLastChunk(s.lm, file1, fileid, is_large_order)
  IN IF fileid \notin DOMAIN s.files
     THEN [s EXCEPT !.lm.exited = TRUE]          \* open() fails: exit(-1)
     ELSE IF IsLastChunk(order)
     THEN [lm |-> [s.lm EXCEPT !.file_resource_manager = last.frm],
           files |-> PutFile(s.files, fileid, last.file)]
     ELSE [s EXCEPT !.files = PutFile(s.files, fileid, file1)]

WriteFirstChunkOrSmallOrder(s, order, hashed_key) ==
  LET lm == s.lm
      size_header == SizeEntryHeader
      location_out == Location(lm.fileid, lm.offset_end)
      self_contained == IsSelfContained(order)
      put == [offset |-> lm.offset_end, type |-> "put", key |-> order.key,
              hash |-> hashed_key, size_value |-> order.size_value,
              value |-> order.value, bytes |-> order.size_chunk,
              crc32 |-> IF self_contained THEN Combine(order.crc32) ELSE order.crc32,
              has_padding |-> ~self_contained]
      \* entry.hash is left unset for a Remove
      remove == [offset |-> lm.offset_end, type |-> "remove", key |-> order.key,
                 hash |-> 0, size_value |-> 0, value |-> "none", bytes |-> 0,
                 crc32 |-> "zero", has_padding |-> FALSE]
      frm1 == AddLogIndex(
                IF order.type = "put" /\ ~self_contained
                THEN SetHasPaddingInValues(lm.file_resource_manager, lm.fileid, TRUE)
                ELSE lm.file_resource_manager,
                lm.fileid, <<hashed_key, lm.offset_end>>)
      s_put == [s EXCEPT !.lm.buffer_raw = Append(@, put),
                         !.lm.file_resource_manager = frm1,
                         !.lm.offset_end = @ + size_header + SizeKey + order.size_chunk]
      s_first == [s_put EXCEPT
                    !.lm.key_to_headersize = Assign(@, <<order.tid, order.key>>, size_header),
                    !.lm.file_resource_manager = SetNumWritesInProgress(@, lm.fileid, 1)]
      s_remove == [s EXCEPT !.lm.buffer_raw = Append(@, remove),
                            !.lm.file_resource_manager = frm1,
                            !.lm.offset_end = @ + size_header + SizeKey]
  IN [s |-> IF order.type = "put"
            THEN IF self_contained THEN s_put
                 ELSE FlushCurrentFile(s_first, FALSE, order.size_value - order.size_chunk)
            ELSE s_remove,
      location |-> location_out]

\* The head of an iteration of the loop of WriteOrdersAndFlushFile: a file is
\* opened if there is none, then the file is flushed and closed if it is over
\* the block size, and no file is opened after that.
FlushIfOver(s) ==
  IF s.lm.offset_end > size_block THEN FlushCurrentFile(s, TRUE, 0) ELSE s

FileForOrder(s) ==
  FlushIfOver(IF ~s.lm.has_file THEN OpenNewFile(s) ELSE s)

\* A variant of the write of an order that hands a chunk to WriteChunk whether
\* or not a location is recorded for it.
WriteOrderChunkUnguarded(s, order, hashed_key, is_large_order, recorded) ==
  IF is_large_order /\ IsFirstChunk(order)
  THEN WriteFirstChunkLargeOrder(s, order, hashed_key)
  ELSE IF order.offset_chunk # 0
  THEN [s |-> WriteChunk(s, order, hashed_key, recorded, is_large_order),
        location |-> recorded]
  ELSE WriteFirstChunkOrSmallOrder(
         [s EXCEPT !.lm.buffer_has_items = TRUE], order, hashed_key)

\* The three cases of the iteration; the result is [s, location].
WriteOrderChunk(s, order, hashed_key, is_large_order, recorded) ==
  IF is_large_order /\ IsFirstChunk(order)
  THEN WriteFirstChunkLargeOrder(s, order, hashed_key)
  ELSE IF order.offset_chunk # 0
  THEN [s |-> IF recorded # NoLocation
              THEN WriteChunk(s, order, hashed_key, recorded, is_large_order)
              ELSE s,
        location |-> recorded]
  ELSE WriteFirstChunkOrSmallOrder(
         [s EXCEPT !.lm.buffer_has_items = TRUE], order, hashed_key)

\* A variant of the end of the iteration that keeps the record of (tid, key)
\* when the entry completes.
RecordOrderKept(map_index_out, r, order, hashed_key, tk) ==
  [s |-> [r.s EXCEPT !.lm =
            IF IsSelfContained(order) \/ IsLastChunk(order) THEN @
            ELSE IF IsFirstChunk(order) /\ r.location # NoLocation
                    /\ order.type # "remove"
            THEN [@ EXCEPT !.key_to_location = Assign(@, tk, r.location)]
            ELSE @],
   map_index_out |->
     IF (IsSelfContained(order) \/ IsLastChunk(order)) /\ r.location # NoLocation
     THEN IndexInsert(map_index_out, hashed_key, r.location)
     ELSE map_index_out]

\* The end of the iteration: map_index_out, key_to_location and
\* key_to_headersize after the write `r` of `order`.
RecordOrder(map_index_out, r, order, hashed_key, tk) ==
  [s |-> [r.s EXCEPT !.lm =
            IF IsSelfContained(order) \/ IsLastChunk(order)
            THEN [@ EXCEPT !.key_to_location = Erase(@, tk),
                           !.key_to_headersize = Erase(@, tk)]
            ELSE IF IsFirstChunk(order) /\ r.location # NoLocation
                    /\ order.type # "remove"
            THEN [@ EXCEPT !.key_to_location = Assign(@, tk, r.location)]
            ELSE @],
   map_index_out |->
     IF (IsSelfContained(order) \/ IsLastChunk(order)) /\ r.location # NoLocation
     THEN IndexInsert(map_index_out, hashed_key, r.location)
     ELSE map_index_out]

\* One order through the file `s` that FileForOrder has prepared.
WriteOrderTo(map_index_out, s, order) ==
  RecordOrder(map_index_out,
              WriteOrderChunk(s, order, HashFunction(order.key),
                              SizeKey + order.size_value > size_block,
                              Lookup(s.lm.key_to_location,
                                     <<order.tid, order.key>>, NoLocation)),
              order, HashFunction(order.key), <<order.tid, order.key>>)

\* One iteration of the loop of WriteOrdersAndFlushFile: the state and the
\* update map after `order`.
WriteOrder(acc, order) ==
  IF acc.s.lm.exited THEN acc
  ELSE WriteOrderTo(acc.map_index_out, FileForOrder(acc.s), order)

RECURSIVE WriteOrdersLoop(_, _)
WriteOrdersLoop(acc, orders) ==
  IF orders = <<>> THEN acc
  ELSE WriteOrdersLoop(WriteOrder(acc, Head(orders)), Tail(orders))

\* The FlushCurrentFile(0, 0) that ends WriteOrdersAndFlushFile.
FlushOrders(r) ==
  IF r.s.lm.exited THEN r
  ELSE [r EXCEPT !.s = FlushCurrentFile(r.s, FALSE, 0)]

WriteOrdersAndFlushFile(s, orders) ==
  FlushOrders(WriteOrdersLoop([s |-> s, map_index_out |-> EmptyIndex], orders))

\* LogfileManager::Close on a writable manager.
CloseLogfileManager(s) ==
  IF s.lm.is_closed THEN s
  ELSE [CloseCurrentFile(FlushCurrentFile([s EXCEPT !.lm.is_closed = TRUE], FALSE, 0))
          EXCEPT !.lm.buffer_raw = <<>>, !.lm.buffers_freed = @ + 1]

(***************************************************************************)
(* Opening a database: LoadDatabase, LoadFile, RecoverFile.                *)
(***************************************************************************)
\* LogFileFooter::IsTypeLarge / IsTypeCompacted and LogFileHeader::IsTypeLarge
\* (kingdb/common.h, not part of src/): a large file counts as compacted.
IsTypeLarge(filetype) == filetype = "large"

IsTypeCompacted(filetype) == filetype \in {"compacted", "large"}

\* LogFileFooter::DecodeFrom on the last bytes of the file, the magic number
\* and the CRC32 of the footer: they check out iff a footer was written and
\* nothing was written or cut after it.
HasValidFooter(file) ==
  /\ file.footer.written
  /\ file.size = file.footer.offset_indexes + SizeLogIndex(file.footer.index)

RECURSIVE InsertLogIndex(_, _, _)
InsertLogIndex(index_se, fileid, logindex) ==
  IF logindex = <<>> THEN index_se
  ELSE InsertLogIndex(
         IndexInsert(index_se, Head(logindex)[1], Location(fileid, Head(logindex)[2])),
         fileid, Tail(logindex))

\* A variant of LoadFile that inserts the locations of the footer before it
\* checks the footer: what the check of the load failure handling must catch.
LoadFileUnchecked(file, fileid, index_se) ==
  [ok |-> HasValidFooter(file),
   index |-> InsertLogIndex(index_se, fileid, file.footer.index)]

\* The result is [ok, index]; on success the caller reads the file size and
\* the two flags from the footer.
LoadFile(file, fileid, index_se) ==
  IF HasValidFooter(file)
  THEN [ok |-> TRUE, index |-> InsertLogIndex(index_se, fileid, file.footer.index)]
  ELSE [ok |-> FALSE, index |-> index_se]

\* The entries RecoverFile scans, from `offset` on: it stops where no entry
\* decodes or where the entry does not fit in the file.
RECURSIVE ScanEntries(_, _)
ScanEntries(file, offset) ==
  LET found == {e \in EntriesAt(file, offset) : offset + EntrySize(e) <= file.size}
      entry == CHOOSE e \in found : TRUE
  IN IF found = {}
        \/ (file.footer.written /\ offset >= file.footer.offset_indexes)
     THEN <<>>
     ELSE <<entry>> \o ScanEntries(file, offset + EntrySize(entry))

RECURSIVE ValidLogIndex(_)
ValidLogIndex(entries) ==
  IF entries = <<>> THEN <<>>
  ELSE (IF Head(entries).crc32 = "valid"
        THEN <<<<Head(entries).hash, Head(entries).offset>>>> ELSE <<>>)
       \o ValidLogIndex(Tail(entries))

\* A variant of step 3 of RecoverFile whose footer lists every scanned entry,
\* the invalid ones too: what the check of recovery idempotence must catch.
RecoverScannedAll(file, fileid, index_se, frm, scanned, offset, logindex_current) ==
  IF ~file.header.written \/ IsTypeLarge(file.header.filetype)
     \/ offset <= SIZE_LOGFILE_HEADER
  THEN [ok |-> FALSE, file |-> file, index |-> index_se, frm |-> frm]
  ELSE [ok |-> TRUE,
        file |-> WriteLogIndex(
                   [file EXCEPT !.entries = scanned, !.footer = NoFooter, !.size = offset],
                   [i \in 1..Len(scanned) |-> <<scanned[i].hash, scanned[i].offset>>],
                   file.header.filetype,
                   \E i \in 1..Len(scanned) : scanned[i].has_padding,
                   \E i \in 1..Len(scanned) : scanned[i].crc32 # "valid"),
        index |-> InsertLogIndex(index_se, fileid, logindex_current),
        frm |-> SetFileSize(frm, fileid, file.size + SizeLogIndex(logindex_current))]

\* The result is [ok, file, index, frm].
\* Step 3 of RecoverFile on the entries `scanned` that end at `offset`.
RecoverScanned(file, fileid, index_se, frm, scanned, offset, logindex_current) ==
  IF ~file.header.written \/ IsTypeLarge(file.header.filetype)
     \/ offset <= SIZE_LOGFILE_HEADER
  THEN [ok |-> FALSE, file |-> file, index |-> index_se, frm |-> frm]
  ELSE [ok |-> TRUE,
        file |-> WriteLogIndex(
                   [file EXCEPT !.entries = scanned, !.footer = NoFooter, !.size = offset],
                   logindex_current, file.header.filetype,
                   \E i \in 1..Len(scanned) : scanned[i].has_padding,
                   \E i \in 1..Len(scanned) : scanned[i].crc32 # "valid"),
        index |-> InsertLogIndex(index_se, fileid, logindex_current),
        frm |-> SetFileSize(frm, fileid, file.size + SizeLogIndex(logindex_current))]

\* The offset after the last of the entries `scanned`.
OffsetAfter(scanned) ==
  IF scanned = <<>> THEN SIZE_LOGFILE_HEADER
  ELSE scanned[Len(scanned)].offset + EntrySize(scanned[Len(scanned)])

RecoverEntries(file, fileid, index_se, frm, scanned) ==
  RecoverScanned(file, fileid, index_se, frm, scanned,
                 OffsetAfter(scanned), ValidLogIndex(scanned))

RecoverFile(file, fileid, index_se, frm) ==
  RecoverEntries(file, fileid, index_se, frm, ScanEntries(file, SIZE_LOGFILE_HEADER))

\* The fileids of `files` in ascending order of "timestamp-fileid".
RECURSIVE SortByTimestampFileid(_, _)
SortByTimestampFileid(files, fileids) ==
  IF fileids = {} THEN <<>>
  ELSE LET first == CHOOSE f \in fileids : \A g \in fileids :
                      \/ files[f].header.timestamp < files[g].header.timestamp
                      \/ (files[f].header.timestamp = files[g].header.timestamp /\ f <= g)
       IN <<first>> \o SortByTimestampFileid(files, fileids \ {first})

\* The loop of LoadDatabase over the sorted files; acc is
\* [files, index, frm, fileids_iterator].
\* The file resource manager after LoadFile succeeded on `file`.
LoadedFileResources(frm, fileid, file) ==
  [frm EXCEPT
     !.filesizes = Assign(@, fileid, file.size),
     !.largefiles = IF IsTypeLarge(file.footer.filetype) THEN @ \cup {fileid} ELSE @,
     !.compactedfiles = IF IsTypeCompacted(file.footer.filetype)
                        THEN @ \cup {fileid} ELSE @]

\* One iteration of the loop of LoadDatabase, where LoadFile failed and
\* RecoverFile answered `recovered`.
LoadRecovered(acc, fileid, recovered) ==
  IF recovered.ok
  THEN [files |-> [acc.files EXCEPT ![fileid] = recovered.file],
        index |-> recovered.index, frm |-> recovered.frm,
        fileids_iterator |-> Append(acc.fileids_iterator, fileid)]
  ELSE [acc EXCEPT !.files = Erase(@, fileid),
                   !.fileids_iterator = Append(@, fileid)]

\* A variant of the iteration that enters recovery on a read-only engine too.
LoadOneFileRecovers(acc, fileid, file, loaded, read_only) ==
  IF loaded.ok
  THEN [acc EXCEPT !.index = loaded.index,
                   !.frm = LoadedFileResources(@, fileid, file),
                   !.fileids_iterator = Append(@, fileid)]
  ELSE LoadRecovered([acc EXCEPT !.index = loaded.index], fileid,
                     RecoverFile(file, fileid, loaded.index, acc.frm))

\* One iteration of the loop of LoadDatabase, where LoadFile answered `loaded`:
\* index_se is passed by reference, what LoadFile left in it stays.
LoadOneFile(acc, fileid, file, loaded, read_only) ==
  IF loaded.ok
  THEN [acc EXCEPT !.index = loaded.index,
                   !.frm = LoadedFileResources(@, fileid, file),
                   !.fileids_iterator = Append(@, fileid)]
  ELSE IF read_only THEN [acc EXCEPT !.index = loaded.index,
                                     !.fileids_iterator = Append(@, fileid)]
  ELSE LoadRecovered([acc EXCEPT !.index = loaded.index], fileid,
                     RecoverFile(file, fileid, loaded.index, acc.frm))

RECURSIVE LoadFiles(_, _, _)
LoadFiles(acc, sorted, read_only) ==
  IF sorted = <<>> THEN acc
  ELSE LoadFiles(LoadOneFile(acc, Head(sorted), acc.files[Head(sorted)],
                             LoadFile(acc.files[Head(sorted)], Head(sorted), acc.index),
                             read_only),
                 Tail(sorted), read_only)

\* dsk is the directory: [main: the files with no prefix, comp: the
\* compaction_ files, locks: the markers of the locks directory].
\* The clean-up of LoadDatabase on a writable database: the compaction_
\* files, the files that have a marker in the locks directory, the markers.
CleanDirectory(dsk, read_only) ==
  IF read_only THEN dsk
  ELSE [main |-> [f \in DOMAIN dsk.main \ dsk.locks |-> dsk.main[f]],
        comp |-> EmptyMap, locks |-> {}]

\* A variant of the readdir loop that does not test fileid_end.
ListedFilesUnbounded(main, fileids_ignore, fileid_end) ==
  {f \in DOMAIN main : /\ f \notin fileids_ignore
                       /\ main[f].size > SIZE_LOGFILE_HEADER
                       /\ main[f].header.written}

\* The files the readdir loop of LoadDatabase keeps.
ListedFiles(main, fileids_ignore, fileid_end) ==
  {f \in DOMAIN main : /\ f \notin fileids_ignore
                       /\ ~(fileid_end # 0 /\ f > fileid_end)
                       /\ main[f].size > SIZE_LOGFILE_HEADER
                       /\ main[f].header.written}

\* A variant of the end of LoadDatabase that sets sequence_fileid only.
SetSequencesFileid(lm, frm, main, listed) ==
  IF listed = {} THEN [lm EXCEPT !.file_resource_manager = frm]
  ELSE [lm EXCEPT
          !.file_resource_manager = frm,
          !.sequence_fileid = CHOOSE f \in listed : \A g \in listed : g <= f]

\* The end of LoadDatabase: the sequences are set from the listed files.
SetSequences(lm, frm, main, listed) ==
  IF listed = {} THEN [lm EXCEPT !.file_resource_manager = frm]
  ELSE [lm EXCEPT
          !.file_resource_manager = frm,
          !.sequence_fileid = CHOOSE f \in listed : \A g \in listed : g <= f,
          !.sequence_timestamp =
             IF lm.is_locked_sequence_timestamp THEN @
             ELSE CHOOSE t \in {main[f].header.timestamp : f \in listed} :
                    \A g \in listed : main[g].header.timestamp <= t]

LoadListed(lm, dsk, listed, r) ==
  [lm |-> SetSequences(lm, r.frm, dsk.main, listed),
   dsk |-> [dsk EXCEPT !.main = r.files],
   index |-> r.index,
   fileids_iterator |-> r.fileids_iterator]

LoadCleaned(lm, dsk, index_se, read_only, listed) ==
  LoadListed(lm, dsk, listed,
             LoadFiles([files |-> dsk.main, index |-> index_se,
                        frm |-> lm.file_resource_manager, fileids_iterator |-> <<>>],
                       SortByTimestampFileid(dsk.main, listed), read_only))

LoadDirectory(lm, dsk, index_se, read_only, fileids_ignore, fileid_end) ==
  LoadCleaned(lm, dsk, index_se, read_only,
              ListedFiles(dsk.main, fileids_ignore, fileid_end))

LoadDatabase(lm, dsk, index_se, read_only, fileids_ignore, fileid_end) ==
  LoadDirectory(lm, CleanDirectory(dsk, read_only), index_se, read_only,
                fileids_ignore, fileid_end)

(***************************************************************************)
(* Reads: GetEntry, GetWithIndex, Get.  A result is [status, value,        *)
(* location] with status "ok", "notfound" or "fault" and location the      *)
(* location_out of the call; GetEntry also answers "remove".               *)
(* "fault" is a read that has no defined result: the file of the location  *)
(* is not in the directory, no entry starts at the offset, or the iterator *)
(* arithmetic of GetWithIndex left the container.                          *)
(***************************************************************************)
NotFound == [status |-> "notfound", value |-> "none", location |-> NoLocation]

Fault == [status |-> "fault", value |-> "none", location |-> NoLocation]

\* The result is [status, key, value].
GetEntry(lm, files, location) ==
  LET fileid == FileIdOf(location)
      filesize == GetFileSize(lm.file_resource_manager, fileid)
      found == EntriesAt(FileOf(files, fileid), OffsetOf(location))
      entry == CHOOSE e \in found : TRUE
  IN IF fileid \notin DOMAIN files \/ filesize = 0 \/ found = {}
     THEN [status |-> "fault", key |-> "none", value |-> "none"]
     ELSE IF entry.type = "remove"
     THEN [status |-> "remove", key |-> entry.key, value |-> "none"]
     ELSE [status |-> "ok", key |-> entry.key,
           value |-> IF entry.bytes = entry.size_value THEN entry.value ELSE "garbage"]

\* The loop of GetWithIndex over `bucket`, from its last location down to
\* its location number `rend` + 1.
RECURSIVE WalkBucket(_, _, _, _, _, _)
\* The body of the loop: `e` is what GetEntry read at bucket[it].
WalkEntry(lm, files, bucket, it, rend, key, e) ==
  IF e.status = "fault" THEN Fault
  ELSE IF e.key = key
  THEN [status |-> IF e.status = "remove" THEN "notfound" ELSE "ok",
        value |-> e.value, location |-> bucket[it]]
  ELSE WalkBucket(lm, files, bucket, it - 1, rend, key)

WalkBucket(lm, files, bucket, it, rend, key) ==
  IF it <= rend THEN NotFound
  ELSE WalkEntry(lm, files, bucket, it, rend, key, GetEntry(lm, files, bucket[it]))

UBOutcomes == {"wrap", "stay", "fault"}

\* rend = --range.first is undefined when range.first is begin(), and so is
\* rbegin = --range.second on an empty container.  `ub` is what the decrement
\* of begin() does: "wrap" gives end() (the walk covers the bucket), "stay"
\* gives begin() again (the walk leaves out the oldest location of the
\* bucket), "fault" is an invalid access.
\* range.first == index.begin(): no location has a smaller hash.
RangeFirstIsBegin(index, hashed_key) ==
  \A h \in Hashes : h < hashed_key => index[h] = <<>>

\* What the decrements of a lookup can do: anything of UBOutcomes when the
\* lookup decrements begin(), and what the standard defines otherwise.
UBOutcomesWhen(decrements_begin) ==
  IF decrements_begin THEN UBOutcomes ELSE {"wrap"}

GetWithIndex(lm, files, index, key, ub) ==
  IF ~RangeFirstIsBegin(index, HashFunction(key))
  THEN WalkBucket(lm, files, index[HashFunction(key)],
                  Len(index[HashFunction(key)]), 0, key)
  ELSE IF ub = "fault" THEN Fault
  ELSE WalkBucket(lm, files, index[HashFunction(key)],
                  Len(index[HashFunction(key)]), IF ub = "stay" THEN 1 ELSE 0, key)

\* Get, after the lookup in index_compaction_ answered `s`.
GetAfterCompactionIndex(lm, files, index, has_compaction_index, key, ub, s) ==
  IF has_compaction_index /\ s.status = "fault" THEN Fault
  ELSE IF has_compaction_index /\ s.status = "ok" THEN s
  ELSE GetWithIndex(lm, files, index, key, ub)

\* ub_compaction and ub are what the decrement of begin() does in the lookup
\* in index_compaction_ and in the lookup in index_.
Get(lm, files, index, index_compaction, has_compaction_index, key, ub_compaction, ub) ==
  GetAfterCompactionIndex(lm, files, index, has_compaction_index, key, ub,
    IF has_compaction_index
    THEN GetWithIndex(lm, files, index_compaction, key, ub_compaction)
    ELSE NotFound)

(***************************************************************************)
(* Compaction.  The steps are operators over the values the code holds in  *)
(* its local collections; a multimap is a function from hashes to          *)
(* sequences, a vector of pairs is a sequence of <<hash, location>>.       *)
(***************************************************************************)
\* Iteration over a std::set<uint32_t>: ascending order.
RECURSIVE Ascending(_)
Ascending(S) ==
  IF S = {} THEN <<>>
  ELSE LET m == CHOOSE x \in S : \A y \in S : x <= y
       IN <<m>> \o Ascending(S \ {m})

Reverse(seq) == [i \in 1..Len(seq) |-> seq[Len(seq) + 1 - i]]

\* Step 1: the hashes that LoadFile puts in index_compaction, from the files
\* of the range that are not flagged compacted.
CompactionStep1(lm, files, fileid_start, fileid_end) ==
  LET selected == {f \in DOMAIN files :
                     /\ ~IsFileCompacted(lm.file_resource_manager, f)
                     /\ f >= fileid_start
                     /\ f <= fileid_end
                     /\ files[f].size > SIZE_LOGFILE_HEADER}
  IN {h \in Hashes : \E f \in selected :
        /\ LoadFile(files[f], f, EmptyIndex).ok
        /\ \E i \in 1..Len(files[f].footer.index) : files[f].footer.index[i][1] = h}

\* Step 2: index_compaction_se, the buckets of index_ for those hashes.
RECURSIVE CompactionStep2(_, _)
CompactionStep2(index, hashes) ==
  IF hashes = <<>> THEN <<>>
  ELSE [i \in 1..Len(index[Head(hashes)]) |-> <<Head(hashes), index[Head(hashes)][i]>>]
       \o CompactionStep2(index, Tail(hashes))

NoDecision ==
  [fault |-> FALSE, locations_delete |-> {}, fileids_compaction |-> {},
   fileids_largefiles_keep |-> {}, keys_encountered |-> {},
   regular_keep |-> EmptyIndex, large_keep |-> EmptyIndex]

\* Step 3, one iteration of the loop over the reversed index_compaction_se.
\* GetEntry on a location that cannot be read leaves `key` unset: the
\* dereference that follows is an invalid access.
CompactionStep3Keep(acc, lm, p, e) ==
  IF IsFileLarge(lm.file_resource_manager, FileIdOf(p[2]))
  THEN [acc EXCEPT !.keys_encountered = @ \cup {e.key},
                   !.large_keep = IndexInsert(@, p[1], p[2]),
                   !.fileids_largefiles_keep = @ \cup {FileIdOf(p[2])}]
  ELSE IF e.status # "remove"
  THEN [acc EXCEPT !.keys_encountered = @ \cup {e.key},
                   !.regular_keep = IndexInsert(@, p[1], p[2])]
  ELSE [acc EXCEPT !.keys_encountered = @ \cup {e.key},
                   !.locations_delete = @ \cup {p[2]}]

CompactionStep3Read(acc, lm, p, e) ==
  IF e.status = "fault" THEN [acc EXCEPT !.fault = TRUE]
  ELSE IF e.key \notin acc.keys_encountered THEN CompactionStep3Keep(acc, lm, p, e)
  ELSE [acc EXCEPT !.locations_delete = @ \cup {p[2]}]

CompactionStep3Entry(acc, lm, files, p, fileid_end) ==
  IF acc.fault \/ FileIdOf(p[2]) > fileid_end THEN acc
  ELSE CompactionStep3Read([acc EXCEPT !.fileids_compaction = @ \cup {FileIdOf(p[2])}],
                           lm, p, GetEntry(lm, files, p[2]))

RECURSIVE CompactionStep3(_, _, _, _, _)
CompactionStep3(acc, lm, files, reversed, fileid_end) ==
  IF reversed = <<>> THEN acc
  ELSE CompactionStep3(CompactionStep3Entry(acc, lm, files, Head(reversed), fileid_end),
                       lm, files, Tail(reversed), fileid_end)

\* std::sort of a vector of locations: ascending (fileid, offset).
LocationLess(l1, l2) == l1[1] < l2[1] \/ (l1[1] = l2[1] /\ l1[2] < l2[2])

RECURSIVE SortLocations(_)
SortLocations(locations) ==
  IF locations = <<>> THEN <<>>
  ELSE LET i == CHOOSE j \in 1..Len(locations) :
                  \A k \in 1..Len(locations) : ~LocationLess(locations[k], locations[j])
       IN <<locations[i]>>
          \o SortLocations([k \in 1..(Len(locations) - 1) |->
                              IF k < i THEN locations[k] ELSE locations[k + 1]])

\* Step 4, the vector `locations` of one bucket of regular_keep: the loop
\* pushes it->second, the first location of the bucket, once per location.
ClusterLocations(bucket) == SortLocations([i \in 1..Len(bucket) |-> bucket[1]])

\* Step 4: [hashedkeys_clusters, locations_secondary].
CompactionStep4Clusters(hashes, cluster) ==
  [hashedkeys_clusters |->
     [l \in {cluster[h][1] : h \in hashes} |->
        cluster[CHOOSE h \in hashes : cluster[h][1] = l]],
   locations_secondary |->
     UNION {{cluster[h][i] : i \in 2..Len(cluster[h])} : h \in hashes}]

CompactionStep4(regular_keep) ==
  CompactionStep4Clusters({h \in Hashes : regular_keep[h] # <<>>},
                          [h \in Hashes |-> ClusterLocations(regular_keep[h])])

\* Step 6, the orders of one entry that is kept: one per location of its
\* cluster, or one for the entry alone.  The sizes and the checksum are
\* those of `entry`, the entry at the current offset; key and chunk are read
\* at the location.
OrdersOfEntry(files, entry, locations) ==
  [i \in 1..Len(locations) |->
     LET at == EntriesAt(FileOf(files, FileIdOf(locations[i])), OffsetOf(locations[i]))
         e == CHOOSE x \in at : TRUE
     IN [tid |-> "compaction", type |-> "put",
         key |-> IF at = {} THEN "garbage" ELSE e.key,
         value |-> IF at # {} /\ e.size_value = entry.size_value /\ e.bytes = e.size_value
                   THEN e.value ELSE "garbage",
         offset_chunk |-> 0, size_chunk |-> entry.size_value,
         size_value |-> entry.size_value, crc32 |-> entry.crc32]]

\* Step 6, the loop over the entries of one file from `offset` on.
RECURSIVE OrdersOfFile(_, _, _, _, _, _)
OrdersOfFile(files, fileid, offset, offset_end, decision, clusters) ==
  LET file == FileOf(files, fileid)
      found == {e \in EntriesAt(file, offset) : offset + EntrySize(e) <= file.size}
      entry == CHOOSE e \in found : TRUE
      location == Location(fileid, offset)
      next == OrdersOfFile(files, fileid, offset + EntrySize(entry), offset_end,
                           decision, clusters)
      locations == IF location \in DOMAIN clusters.hashedkeys_clusters
                   THEN clusters.hashedkeys_clusters[location]
                   ELSE <<location>>
  IN IF offset >= offset_end \/ found = {} THEN <<>>
     ELSE IF location \in decision.locations_delete
             \/ location \in clusters.locations_secondary
     THEN next
     ELSE OrdersOfEntry(files, entry, locations) \o next

\* Step 6: [ok, orders, timestamp_max] over the files of fileids_compaction
\* that are not large, in ascending order of fileid.
RECURSIVE CompactionStep6(_, _, _, _, _)
\* One file of step 6, `rest` being the result for the files after it.
CompactionStep6File(lm, files, fileid, file, decision, clusters, rest) ==
  IF IsFileLarge(lm.file_resource_manager, fileid) THEN rest
  ELSE IF ~file.header.written
  THEN [ok |-> FALSE, orders |-> <<>>, timestamp_max |-> 0]
  ELSE [ok |-> rest.ok,
        orders |-> OrdersOfFile(files, fileid, SIZE_LOGFILE_HEADER,
                                IF HasValidFooter(file) THEN file.footer.offset_indexes
                                ELSE file.size,
                                decision, clusters) \o rest.orders,
        timestamp_max |-> Max(file.header.timestamp, rest.timestamp_max)]

CompactionStep6(lm, files, fileids, decision, clusters) ==
  IF fileids = <<>> THEN [ok |-> TRUE, orders |-> <<>>, timestamp_max |-> 0]
  ELSE CompactionStep6File(lm, files, Head(fileids), FileOf(files, Head(fileids)),
                           decision, clusters,
                           CompactionStep6(lm, files, Tail(fileids), decision, clusters))

\* Steps 9 and 10: the rename of compacted file number `fileid` and the
\* shift of the locations of the update map.
RECURSIVE RenameFiles(_, _, _, _, _)
RenameFiles(main, comp, frm, frm_compaction, todo) ==
  IF todo = <<>> THEN [main |-> main, comp |-> comp, frm |-> frm]
  ELSE LET fileid == Head(todo)[1]
           fileid_new == Head(todo)[2]
           renamed == fileid \in DOMAIN comp
       IN RenameFiles(IF renamed THEN Assign(main, fileid_new, comp[fileid]) ELSE main,
                      IF renamed THEN Erase(comp, fileid) ELSE comp,
                      SetFileCompacted(
                        SetFileSize(frm, fileid_new, GetFileSize(frm_compaction, fileid)),
                        fileid_new),
                      frm_compaction, Tail(todo))

ShiftLocations(map_index, offset_fileid) ==
  [h \in Hashes |->
     [i \in 1..Len(map_index[h]) |->
        Location(FileIdOf(map_index[h][i]) + offset_fileid, OffsetOf(map_index[h][i]))]]

\* Step 12, the bucket of index_ for one hash of map_index_shifted.
MergedBucket(index, map_index_shifted, hashedkey, fileid_end) ==
  map_index_shifted[hashedkey]
  \o SelectSeq(index[hashedkey], LAMBDA location : FileIdOf(location) > fileid_end)

CompactionStep12(index, map_index_shifted, fileid_end) ==
  [h \in Hashes |-> IF map_index_shifted[h] # <<>>
                    THEN MergedBucket(index, map_index_shifted, h, fileid_end)
                    ELSE index[h]]

\* Step 13: index_.insert(index_compaction_.begin(), index_compaction_.end()).
CompactionStep13(index, index_compaction) ==
  [h \in Hashes |-> index[h] \o index_compaction[h]]

(***************************************************************************)
(* The clients.  Order number n carries the value ToString(n).  A value    *)
(* sent in two chunks comes from thread t1, which sends nothing else until *)
(* the last chunk is out; self-contained orders come from thread t2.       *)
(***************************************************************************)
NoOrder == [type |-> "none"]

SizeSmall == 1
SizeChunked == 2
SizeLarge == SIZE_LOGFILE_TOTAL

PutOrder(tid, key, n, offset_chunk, size_chunk, size_value) ==
  [tid |-> tid, type |-> "put", key |-> key, value |-> ToString(n),
   offset_chunk |-> offset_chunk, size_chunk |-> size_chunk, size_value |-> size_value,
   crc32 |-> IF offset_chunk + size_chunk = size_value THEN "keyvalue" ELSE "zero"]

RemoveOrder(key) ==
  [tid |-> "t2", type |-> "remove", key |-> key, value |-> "none",
   offset_chunk |-> 0, size_chunk |-> 0, size_value |-> 0, crc32 |-> "zero"]

\* The last chunk that follows a first chunk.
LastChunkOf(order) ==
  [order EXCEPT !.offset_chunk = order.size_chunk,
                !.size_chunk = order.size_value - order.size_chunk,
                !.crc32 = "keyvalue"]

\* The orders a client may send as order number n, `chunk` being the last
\* chunk that t1 still has to send.
OrderMenu(n, chunk) ==
  {PutOrder("t2", key, n, 0, SizeSmall, SizeSmall) : key \in Keys}
  \cup {RemoveOrder(key) : key \in {"k1", "k2"}}
  \cup {PutOrder("t2", "k1", n, 0, SizeLarge, SizeLarge)}
  \cup (IF chunk # NoOrder THEN {chunk}
        ELSE {PutOrder("t1", "k1", n, 0, 1, SizeChunked),
              PutOrder("t1", "k1", n, 0, SizeLarge \div 2, SizeLarge)})

ClientAfter(cl, order) ==
  [n |-> cl.n + 1,
   chunk |-> IF IsSelfContained(order) THEN cl.chunk
             ELSE IF IsFirstChunk(order) THEN LastChunkOf(order)
             ELSE NoOrder]

\* The batches the buffer manager may hand to the data worker.
RECURSIVE Batches(_, _, _)
Batches(cl, len, max) ==
  IF len = 0 \/ cl.n >= max THEN {<<>>}
  ELSE {<<>>} \cup
       UNION {{<<order>> \o rest : rest \in Batches(ClientAfter(cl, order), len - 1, max)} :
                order \in OrderMenu(cl.n + 1, cl.chunk)}

RECURSIVE ClientAfterBatch(_, _)
ClientAfterBatch(cl, orders) ==
  IF orders = <<>> THEN cl
  ELSE ClientAfterBatch(ClientAfter(cl, Head(orders)), Tail(orders))

(***************************************************************************)
(* The state of a StorageEngine process and of its database directory.     *)
(***************************************************************************)
VARIABLES
  logfile_manager_,              \* the manager of the log files
  logfile_manager_compaction_,   \* the manager of the compaction_ files
  dsk,                           \* the directory: [main, comp, locks]
  index_,
  index_compaction_,
  is_compaction_in_progress_,
  update_index,                  \* the hand-off from data worker to index worker
  compaction,                    \* the position and the locals of Compaction()
  sequence_snapshot_,
  snapshotids_to_fileids_,
  num_references_to_unused_files_,
  got,                           \* the key and the result of the last Get
  client,                        \* the orders sent so far
  hist,                          \* history: what the clients were told
  threads,                       \* the locks, and where each thread stands
  snapshot                       \* the read-only StorageEngine of a snapshot

vars ==
  <<logfile_manager_, logfile_manager_compaction_, dsk, index_, index_compaction_,
    is_compaction_in_progress_, update_index, compaction, sequence_snapshot_,
    snapshotids_to_fileids_, num_references_to_unused_files_, got, client, hist,
    threads, snapshot>>

snapshot_vars ==
  <<sequence_snapshot_, snapshotids_to_fileids_, num_references_to_unused_files_,
    snapshot>>

\* `wrapped`: every decrement of begin() in the Get gave end().
NoGet == [key |-> "none", status |-> "none", value |-> "none", wrapped |-> TRUE]

NoUpdate == [state |-> "idle", map_index |-> EmptyIndex, index |-> "none"]

\* No snapshot was asked for.  `state` is "none", "taken" (the caller holds
\* fileid_end and fileids_ignore) or "open" (the read-only engine is built);
\* `existing` is the set of the files of the directory when it was taken.
NoSnapshot ==
  [state |-> "none", fileid_end |-> 0, fileids_ignore |-> {}, existing |-> {},
   index_ |-> EmptyIndex, fileids_iterator_ |-> <<>>]

NoCompaction ==
  [pc |-> "idle", fileid_start |-> 0, fileid_end |-> 0, fileids_compaction |-> {},
   fileids_largefiles_keep |-> {}, map_index_shifted |-> EmptyIndex]

\* What is known of a key: the newest order applied to the index (status
\* "never", "ok" or "removed"), where it was written, how many Puts were
\* applied, whether the newest was processed during a compaction, and
\* whether a Put applied for the key was a large entry.
NeverWritten ==
  [status |-> "never", value |-> "none", location |-> NoLocation, puts |-> 0,
   during |-> FALSE, large |-> FALSE]

NoHistory ==
  [expected |-> [k \in Keys |-> NeverWritten],
   pending |-> <<>>,         \* the orders completed by the batch in hand-off
   before |-> [k \in Keys |-> NeverWritten],   \* `expected` when Compaction began
   since |-> {},             \* the keys written since Compaction began or the engine opened
   drained |-> {},           \* the locations step 13 moved to index_
   obsolete |-> {},          \* the files step 14 found obsolete
   owed |-> EmptyMap,        \* per obsolete file, the snapshots live at step 14
   live |-> {},              \* the snapshots handed out and not released
   closed |-> [k \in Keys |-> NotFound],       \* the answers when the engine closed
   opened |-> 0,             \* the opens of the directory in a row, nothing run in between
   rejected |-> {},          \* the files whose footer LoadFile rejected at an open
   observed |-> {},          \* the files the readdir loop kept at the open, with their timestamps
   loaded |-> {},            \* those of them LoadDatabase left in the directory
   full |-> FALSE,           \* the compaction began over every file, each with its footer
   compactions |-> 0, reopens |-> 0]

\* The threads of a process: the three workers the constructor starts, two
\* callers of Get and two callers of Close.
Workers == {"index", "data", "compaction"}

Readers == {"r1", "r2"}

Closers == {"c1", "c2"}

\* pc "idle": a worker waits for its event (the compaction worker polls), a
\* caller is outside its call.  acquiring: where a thread stands inside
\* AcquireWriteLock ("lock": before mutex_write_.lock(); "wait": in the
\* loop that waits for num_readers_ == 0; "no": not inside).  A mutex is
\* the name of the thread that holds it, or "none".
NoThreads ==
  [pc |-> [t \in Workers \cup Readers \cup Closers |-> "idle"],
   acquiring |-> [t \in Workers \cup Closers |-> "no"],
   mutex_write_ |-> "none", mutex_index_ |-> "none", mutex_close_ |-> "none",
   num_readers_ |-> 0, stop_requested_ |-> FALSE, is_closed_ |-> FALSE,
   joined |-> [t \in Workers |-> 0],   \* the calls of join() on each worker
   deleted |-> 0,                       \* the times Close deleted fileids_ignore_
   destroyed |-> FALSE,                 \* the destructors ran
   bucket |-> 0,                        \* step 12: the hash whose bucket is erased, or 0
   locations_after |-> <<>>,            \* step 12: the locations saved from that bucket
   counter_iterations |-> 0,            \* step 12: the buckets merged under this lock
   merged |-> {},                       \* step 12: the hashes whose bucket is merged
   opening |-> FALSE,                   \* OpenNewFile incremented the sequences and has not read them
   fault |-> FALSE]                     \* a thread made an invalid access

\* A variant of the test of is_closed_ that never finds the engine closed.
NeverClosed(th) == FALSE

\* `if (is_closed_) return;` in StorageEngine::Close.
IsClosed(th) == th.is_closed_

\* The state right after the constructor ran on an empty directory.
Init ==
  /\ logfile_manager_ = NewLogfileManager("log")
  /\ logfile_manager_compaction_ = NewLogfileManager("compacted")
  /\ dsk = [main |-> EmptyMap, comp |-> EmptyMap, locks |-> {}]
  /\ index_ = EmptyIndex
  /\ index_compaction_ = EmptyIndex
  /\ is_compaction_in_progress_ = FALSE
  /\ update_index = NoUpdate
  /\ compaction = NoCompaction
  /\ sequence_snapshot_ = 0
  /\ snapshotids_to_fileids_ = EmptyMap
  /\ num_references_to_unused_files_ = EmptyMap
  /\ got = NoGet
  /\ client = [n |-> 0, chunk |-> NoOrder]
  /\ hist = NoHistory
  /\ threads = NoThreads
  /\ snapshot = NoSnapshot

\* The process is alive: exit(-1) was not called and no thread made an
\* invalid access.
Running == ~logfile_manager_.exited /\ compaction.pc # "fault"

(***************************************************************************)
(* The write pipeline: ProcessingLoopData and ProcessingLoopIndex.         *)
(***************************************************************************)
\* History only: the orders of a batch that complete an entry, with the
\* location WriteOrdersAndFlushFile returns for each.
RECURSIVE Completed(_, _)
\* acc1 is the result of WriteOrder(acc, Head(orders)).
CompletedBy(acc, acc1, order, h, orders) ==
  (IF IsLastChunk(order)
   THEN <<[key |-> order.key,
           status |-> IF order.type = "put" THEN "ok" ELSE "removed",
           value |-> order.value,
           location |-> IF Len(acc1.map_index_out[h]) > Len(acc.map_index_out[h])
                        THEN acc1.map_index_out[h][Len(acc1.map_index_out[h])]
                        ELSE NoLocation,
           during |-> is_compaction_in_progress_,
           large |-> SizeKey + order.size_value > size_block]>>
   ELSE <<>>)
  \o Completed(acc1, Tail(orders))

Completed(acc, orders) ==
  IF orders = <<>> THEN <<>>
  ELSE CompletedBy(acc, WriteOrder(acc, Head(orders)), Head(orders),
                   HashFunction(Head(orders).key), orders)

RECURSIVE ApplyCompleted(_, _)
ApplyCompleted(expected, pending) ==
  IF pending = <<>> THEN expected
  ELSE LET c == Head(pending)
       IN ApplyCompleted(
            [expected EXCEPT ![c.key] =
               [status |-> c.status, value |-> c.value, location |-> c.location,
                puts |-> IF c.status = "ok" THEN @.puts + 1 ELSE @.puts,
                during |-> c.during,
                large |-> @.large \/ c.large]],
            Tail(pending))

PendingKeys == {hist.pending[i].key : i \in 1..Len(hist.pending)}

\* ProcessingLoopData, one turn: the batch is written under the write lock
\* and handed to the index worker; the next turn starts when the index
\* worker is done.
\* The turn from the state s of the log manager and its files.
DataWorkerFrom(s, orders) ==
  /\ Running
  /\ got = NoGet
  /\ update_index.state = "idle"
  /\ orders # <<>>
  /\ \E r \in {WriteOrdersAndFlushFile(s, orders)} :
       /\ logfile_manager_' = r.s.lm
       /\ dsk' = [dsk EXCEPT !.main = r.s.files]
       /\ update_index' = [state |-> "started", map_index |-> r.map_index_out,
                           index |-> "none"]
  /\ \E completed \in {Completed([s |-> s, map_index_out |-> EmptyIndex], orders)} :
       hist' = [hist EXCEPT !.pending = completed,
                            !.since = @ \cup {completed[i].key : i \in 1..Len(completed)},
                            !.opened = 0]
  /\ client' = ClientAfterBatch(client, orders)
  /\ got' = NoGet
  /\ UNCHANGED <<logfile_manager_compaction_, index_, index_compaction_,
                 is_compaction_in_progress_, compaction, snapshot_vars>>

DataWorker(orders) ==
  DataWorkerFrom([lm |-> logfile_manager_, files |-> dsk.main], orders)

\* ProcessingLoopIndex: the index is chosen under mutex_compaction_ ...
IndexPick ==
  /\ Running
  /\ got = NoGet
  /\ update_index.state = "started"
  /\ update_index' = [update_index EXCEPT
                        !.state = "picked",
                        !.index = IF is_compaction_in_progress_
                                  THEN "index_compaction_" ELSE "index_"]
  /\ got' = NoGet
  /\ UNCHANGED <<logfile_manager_, logfile_manager_compaction_, dsk, index_,
                 index_compaction_, is_compaction_in_progress_, compaction,
                 snapshot_vars, client, hist>>

\* ... and the updates are inserted after the mutex is released.
IndexInsertAll ==
  /\ Running
  /\ got = NoGet
  /\ update_index.state = "picked"
  /\ IF update_index.index = "index_"
     THEN /\ index_' = [h \in Hashes |-> index_[h] \o update_index.map_index[h]]
          /\ UNCHANGED index_compaction_
     ELSE /\ index_compaction_' =
               [h \in Hashes |-> index_compaction_[h] \o update_index.map_index[h]]
          /\ UNCHANGED index_
  /\ update_index' = NoUpdate
  /\ hist' = [hist EXCEPT !.expected = ApplyCompleted(@, hist.pending),
                          !.pending = <<>>]
  /\ got' = NoGet
  /\ UNCHANGED <<logfile_manager_, logfile_manager_compaction_, dsk,
                 is_compaction_in_progress_, compaction, snapshot_vars, client>>

\* StorageEngine::Get of one key.  The call blocks its caller: the result
\* stays in `got` until the caller takes it, and the other threads take their
\* next steps after that (a step taken in between leads where the same step
\* taken afterwards leads).
GetKey(key) ==
  /\ Running
  /\ got = NoGet
  /\ \E ub_compaction \in
         UBOutcomesWhen(/\ is_compaction_in_progress_
                        /\ RangeFirstIsBegin(index_compaction_, HashFunction(key))),
        ub \in UBOutcomesWhen(RangeFirstIsBegin(index_, HashFunction(key))) :
       \E s \in {Get(logfile_manager_, dsk.main, index_, index_compaction_,
                     is_compaction_in_progress_, key, ub_compaction, ub)} :
         got' = [key |-> key, status |-> s.status, value |-> s.value,
                 wrapped |-> ub_compaction = "wrap" /\ ub = "wrap"]
  /\ UNCHANGED <<logfile_manager_, logfile_manager_compaction_, dsk, index_,
                 index_compaction_, is_compaction_in_progress_, update_index,
                 compaction, snapshot_vars, client, hist>>

(***************************************************************************)
(* Compaction(dbname, fileid_start, fileid_end), in five atomic parts: the *)
(* flag is raised; steps 1 to 11 run without any lock; step 12 and step 13 *)
(* each run under the write lock; step 14 runs under mutex_snapshot_.      *)
(***************************************************************************)
\* The ranges Compaction is called with: the trigger of
\* ProcessingLoopCompaction passes [1, sequence_fileid + 1].
CompactionRanges ==
  {<<1, b>> : b \in 1..(logfile_manager_.sequence_fileid + 1)}

\* The start of the call number hist.compactions + 1 of Compaction, of at
\* most `max` calls.
CompactionStart(fileid_start, fileid_end, max) ==
  /\ Running
  /\ got = NoGet
  /\ compaction.pc \in {"idle", "done", "failed"}
  /\ hist.compactions < max
  /\ is_compaction_in_progress_' = TRUE
  /\ dsk' = [dsk EXCEPT !.comp = EmptyMap]
  /\ compaction' = [NoCompaction EXCEPT !.pc = "begun",
                                        !.fileid_start = fileid_start,
                                        !.fileid_end = fileid_end]
  /\ hist' = [hist EXCEPT
                !.opened = 0,
                !.compactions = @ + 1,
                !.before = [k \in Keys |->
                              GetWithIndex(logfile_manager_, dsk.main, index_, k, "wrap")],
                !.since = PendingKeys,
                !.drained = {},
                !.full = /\ fileid_start = 1
                         /\ fileid_end >= logfile_manager_.sequence_fileid
                         /\ \A f \in DOMAIN dsk.main : HasValidFooter(dsk.main[f])]
  /\ got' = NoGet
  /\ UNCHANGED <<logfile_manager_, logfile_manager_compaction_, index_,
                 index_compaction_, update_index, snapshot_vars, client>>

CompactionBegin(fileid_start, fileid_end) ==
  CompactionStart(fileid_start, fileid_end, MaxCompactions)

\* Steps 1 to 11.
\* Steps 7 to 11 for the orders of step 6, `written` being what
\* WriteOrdersAndFlushFile did with them and `closed` the compaction manager
\* and the compaction_ files after its file is closed.
CompactionRename(decision, written, closed) ==
  \E renamed \in {RenameFiles(
                    dsk.main, closed.files, logfile_manager_.file_resource_manager,
                    closed.lm.file_resource_manager,
                    [i \in 1..closed.lm.sequence_fileid |->
                       <<i, i + logfile_manager_.sequence_fileid>>])} :
    /\ compaction' =
         [compaction EXCEPT
            !.pc = "rewritten",
            !.fileids_compaction = decision.fileids_compaction,
            !.fileids_largefiles_keep = decision.fileids_largefiles_keep,
            !.map_index_shifted =
               [h \in Hashes |->
                  ShiftLocations(written.map_index_out,
                                 logfile_manager_.sequence_fileid)[h]
                  \o decision.large_keep[h]]]
    /\ logfile_manager_' =
         [logfile_manager_ EXCEPT !.sequence_fileid = @ + closed.lm.sequence_fileid,
                                  !.file_resource_manager = renamed.frm]
    /\ logfile_manager_compaction_' = closed.lm
    /\ dsk' = [dsk EXCEPT !.main = renamed.main, !.comp = renamed.comp]

\* Steps 6 to 11 for the decision of step 3.
CompactionWrite(decision, step6) ==
  IF ~step6.ok
  THEN /\ compaction' = [compaction EXCEPT !.pc = "failed"]
       /\ UNCHANGED <<logfile_manager_, logfile_manager_compaction_, dsk>>
  ELSE \E written \in {WriteOrdersAndFlushFile(
                         [lm |-> LockSequenceTimestamp(logfile_manager_compaction_,
                                                       step6.timestamp_max),
                          files |-> dsk.comp],
                         step6.orders)} :
         CompactionRename(decision, written, CloseCurrentFile(written.s))

\* Steps 1 to 11.
CompactionRewrite ==
  /\ Running
  /\ got = NoGet
  /\ compaction.pc = "begun"
  /\ \E decision \in
       {CompactionStep3(
          NoDecision, logfile_manager_, dsk.main,
          Reverse(CompactionStep2(
                    index_,
                    Ascending(CompactionStep1(logfile_manager_, dsk.main,
                                              compaction.fileid_start,
                                              compaction.fileid_end)))),
          compaction.fileid_end)} :
       IF decision.fault
       THEN /\ compaction' = [compaction EXCEPT !.pc = "fault"]
            /\ UNCHANGED <<logfile_manager_, logfile_manager_compaction_, dsk>>
       ELSE CompactionWrite(
              decision,
              CompactionStep6(logfile_manager_, dsk.main,
                              Ascending(decision.fileids_compaction), decision,
                              CompactionStep4(decision.regular_keep)))
  /\ got' = NoGet
  /\ UNCHANGED <<index_, index_compaction_, is_compaction_in_progress_, update_index,
                 snapshot_vars, client, hist>>

\* Step 12.
CompactionMerge ==
  /\ Running
  /\ got = NoGet
  /\ compaction.pc = "rewritten"
  /\ index_' = CompactionStep12(index_, compaction.map_index_shifted, compaction.fileid_end)
  /\ compaction' = [compaction EXCEPT !.pc = "merged"]
  /\ got' = NoGet
  /\ UNCHANGED <<logfile_manager_, logfile_manager_compaction_, dsk, index_compaction_,
                 is_compaction_in_progress_, update_index, snapshot_vars, client, hist>>

\* Step 13.
CompactionDrain ==
  /\ Running
  /\ got = NoGet
  /\ compaction.pc = "merged"
  /\ index_' = CompactionStep13(index_, index_compaction_)
  /\ index_compaction_' = EmptyIndex
  /\ is_compaction_in_progress_' = FALSE
  /\ compaction' = [compaction EXCEPT !.pc = "drained"]
  /\ hist' = [hist EXCEPT !.drained =
                UNION {{index_compaction_[h][i] : i \in 1..Len(index_compaction_[h])} :
                         h \in Hashes}]
  /\ got' = NoGet
  /\ UNCHANGED <<logfile_manager_, logfile_manager_compaction_, dsk, update_index,
                 snapshot_vars, client>>

\* Step 14, the branch taken while snapshotids_to_fileids_ is not empty: the
\* file is added to every snapshot, its count grows by the number of
\* snapshots, and its lock file is created.
RECURSIVE MarkUnusedFiles(_, _, _, _)
MarkUnusedFiles(fileids, snapshots, references, locks) ==
  IF fileids = <<>>
  THEN [snapshots |-> snapshots, references |-> references, locks |-> locks]
  ELSE LET fileid == Head(fileids)
       IN MarkUnusedFiles(
            Tail(fileids),
            [id \in DOMAIN snapshots |-> snapshots[id] \cup {fileid}],
            Assign(references, fileid,
                   Lookup(references, fileid, 0) + Cardinality(DOMAIN snapshots)),
            locks \cup {fileid})

\* Step 14.
CompactionRemove ==
  /\ Running
  /\ got = NoGet
  /\ compaction.pc = "drained"
  /\ \E unused \in {compaction.fileids_compaction \ compaction.fileids_largefiles_keep} :
       /\ IF DOMAIN snapshotids_to_fileids_ = {}
          THEN /\ dsk' = [dsk EXCEPT !.main = [f \in DOMAIN @ \ unused |-> @[f]]]
               /\ UNCHANGED <<snapshotids_to_fileids_, num_references_to_unused_files_>>
          ELSE \E marked \in {MarkUnusedFiles(Ascending(unused), snapshotids_to_fileids_,
                                              num_references_to_unused_files_, dsk.locks)} :
                 /\ dsk' = [dsk EXCEPT !.locks = marked.locks]
                 /\ snapshotids_to_fileids_' = marked.snapshots
                 /\ num_references_to_unused_files_' = marked.references
       /\ hist' = [hist EXCEPT
                     !.obsolete = @ \cup unused,
                     !.owed = [f \in DOMAIN @ \cup unused |->
                                 IF f \in unused THEN hist.live ELSE @[f]]]
  /\ compaction' = [compaction EXCEPT !.pc = "done"]
  /\ got' = NoGet
  /\ UNCHANGED <<logfile_manager_, logfile_manager_compaction_, index_, index_compaction_,
                 is_compaction_in_progress_, update_index, sequence_snapshot_, client,
                 snapshot>>

(***************************************************************************)
(* Snapshots.                                                              *)
(***************************************************************************)
\* The snapshot id is the new value of sequence_snapshot_; fileids_ignore,
\* the keys of num_references_to_unused_files_, goes to the caller.
GetNewSnapshotData ==
  /\ Running
  /\ got = NoGet
  /\ sequence_snapshot_ < MaxSnapshots
  /\ sequence_snapshot_' = sequence_snapshot_ + 1
  /\ hist' = [hist EXCEPT !.live = @ \cup {sequence_snapshot_ + 1}]
  /\ got' = NoGet
  /\ UNCHANGED <<logfile_manager_, logfile_manager_compaction_, dsk, index_,
                 index_compaction_, is_compaction_in_progress_, update_index, compaction,
                 snapshotids_to_fileids_, num_references_to_unused_files_, client,
                 snapshot>>

\* The loop of ReleaseSnapshot over the files of the snapshot.
RECURSIVE ReleaseFiles(_, _, _)
ReleaseFiles(fileids, references, d) ==
  IF fileids = <<>> THEN [references |-> references, dsk |-> d]
  ELSE LET fileid == Head(fileids)
       IN IF Lookup(references, fileid, 0) = 1
          THEN ReleaseFiles(Tail(fileids), Assign(references, fileid, 1),
                            [d EXCEPT !.main = Erase(@, fileid), !.locks = @ \ {fileid}])
          ELSE ReleaseFiles(Tail(fileids),
                            Assign(references, fileid, Lookup(references, fileid, 0) - 1), d)

ReleaseSnapshot(snapshot_id) ==
  /\ Running
  /\ got = NoGet
  /\ snapshot_id \in hist.live
  /\ IF snapshot_id \notin DOMAIN snapshotids_to_fileids_
     THEN UNCHANGED <<dsk, snapshotids_to_fileids_, num_references_to_unused_files_>>
     ELSE \E released \in {ReleaseFiles(Ascending(snapshotids_to_fileids_[snapshot_id]),
                                        num_references_to_unused_files_, dsk)} :
            /\ dsk' = released.dsk
            /\ num_references_to_unused_files_' = released.references
            /\ snapshotids_to_fileids_' = Erase(snapshotids_to_fileids_, snapshot_id)
  /\ hist' = [hist EXCEPT !.live = @ \ {snapshot_id}]
  /\ got' = NoGet
  /\ UNCHANGED <<logfile_manager_, logfile_manager_compaction_, index_, index_compaction_,
                 is_compaction_in_progress_, update_index, compaction, sequence_snapshot_,
                 client, snapshot>>

\* A snapshot is taken: FlushCurrentFileForSnapshot() gives fileid_end, the
\* file that was active, and GetNewSnapshotData gives the snapshot id and
\* fileids_ignore.
NewSnapshot ==
  /\ Running
  /\ got = NoGet
  /\ snapshot.state = "none"
  /\ sequence_snapshot_ < MaxSnapshots
  /\ \E flushed \in {FlushCurrentFile([lm |-> logfile_manager_, files |-> dsk.main],
                                       TRUE, 0)} :
       /\ logfile_manager_' = flushed.lm
       /\ dsk' = [dsk EXCEPT !.main = flushed.files]
       /\ snapshot' = [NoSnapshot EXCEPT
                         !.state = "taken",
                         !.fileid_end = IF logfile_manager_.has_file
                                        THEN logfile_manager_.fileid ELSE 0,
                         !.fileids_ignore = DOMAIN num_references_to_unused_files_,
                         !.existing = DOMAIN flushed.files]
  /\ sequence_snapshot_' = sequence_snapshot_ + 1
  /\ hist' = [hist EXCEPT !.live = @ \cup {sequence_snapshot_ + 1}]
  /\ got' = NoGet
  /\ UNCHANGED <<logfile_manager_compaction_, index_, index_compaction_,
                 is_compaction_in_progress_, update_index, compaction,
                 snapshotids_to_fileids_, num_references_to_unused_files_, client>>

\* The sets a caller may pass as fileids_ignore: the set GetNewSnapshotData
\* gave it, and any files it adds.
IgnoreSets == {taken \cup more : taken \in {snapshot.fileids_ignore},
                                 more \in SUBSET (1..MaxIgnored)}

\* The constructor of a read-only StorageEngine on the directory of the
\* process, with the bound of the snapshot: no worker thread is started,
\* LoadDatabase fills index_ and fileids_iterator_.
OpenSnapshot(fileids_ignore) ==
  /\ Running
  /\ got = NoGet
  /\ snapshot.state = "taken"
  /\ \E loaded \in {LoadDatabase(NewLogfileManager("log"), dsk, EmptyIndex, TRUE,
                                  fileids_ignore, snapshot.fileid_end)} :
       /\ snapshot' = [snapshot EXCEPT !.state = "open",
                                       !.fileids_ignore = fileids_ignore,
                                       !.index_ = loaded.index,
                                       !.fileids_iterator_ = loaded.fileids_iterator]
       /\ dsk' = loaded.dsk
  /\ got' = NoGet
  /\ UNCHANGED <<logfile_manager_, logfile_manager_compaction_, index_,
                 index_compaction_, is_compaction_in_progress_, update_index, compaction,
                 sequence_snapshot_, snapshotids_to_fileids_,
                 num_references_to_unused_files_, client, hist>>

(***************************************************************************)
(* Close, then a new process on the same directory.                        *)
(***************************************************************************)
\* StorageEngine::Close and the destructors, then the constructor of a
\* writable StorageEngine: LoadDatabase rebuilds index_ from the files.
\* The files of the directory on which LoadFile fails in LoadDatabase.
RejectedFiles(files) ==
  {f \in ListedFiles(files, {}, 0) : ~LoadFile(files[f], f, EmptyIndex).ok}

\* The files of the directory after LogfileManager::Close.
FilesAtClose ==
  CloseLogfileManager([lm |-> logfile_manager_, files |-> dsk.main]).files

\* The files the readdir loop of LoadDatabase keeps at the open that follows
\* Close, each with the timestamp of its header.
ObservedAtOpen ==
  {[fileid |-> f, timestamp |-> FilesAtClose[f].header.timestamp] :
     f \in ListedFiles(CleanDirectory([dsk EXCEPT !.main = FilesAtClose], FALSE).main,
                       {}, 0)}

Reopen(max) ==
  /\ Running
  /\ got = NoGet
  /\ hist.reopens < max
  /\ update_index.state = "idle"
  /\ compaction.pc \in {"idle", "done", "failed"}
  /\ \E loaded \in
       {LoadDatabase(
          NewLogfileManager("log"),
          [dsk EXCEPT
             !.main = CloseLogfileManager(
                        [lm |-> logfile_manager_, files |-> dsk.main]).files,
             !.comp = CloseLogfileManager(
                        [lm |-> logfile_manager_compaction_, files |-> dsk.comp]).files],
          EmptyIndex, FALSE, {}, 0)} :
       /\ logfile_manager_' = loaded.lm
       /\ dsk' = loaded.dsk
       /\ index_' = loaded.index
  /\ logfile_manager_compaction_' = NewLogfileManager("compacted")
  /\ index_compaction_' = EmptyIndex
  /\ is_compaction_in_progress_' = FALSE
  /\ update_index' = NoUpdate
  /\ compaction' = NoCompaction
  /\ sequence_snapshot_' = 0
  /\ snapshotids_to_fileids_' = EmptyMap
  /\ num_references_to_unused_files_' = EmptyMap
  /\ snapshot' = NoSnapshot
  /\ got' = NoGet
  /\ client' = [client EXCEPT !.chunk = NoOrder]
  /\ hist' = [NoHistory EXCEPT !.expected = hist.expected,
                               !.closed =
                                 [k \in Keys |->
                                    GetWithIndex(logfile_manager_, dsk.main, index_,
                                                 k, "wrap")],
                               !.opened = hist.opened + 1,
                               !.rejected = hist.rejected
                                            \cup RejectedFiles(
                                                    CleanDirectory(
                                                      [dsk EXCEPT !.main = FilesAtClose],
                                                      FALSE).main),
                               !.observed = ObservedAtOpen,
                               !.loaded = {o.fileid : o \in ObservedAtOpen}
                                          \cap DOMAIN dsk'.main,
                               !.compactions = hist.compactions,
                               !.reopens = hist.reopens + 1]

CloseAndReopen == Reopen(MaxReopens)

\* The caller takes the result of its Get.
GetReturn ==
  /\ got # NoGet
  /\ got' = NoGet
  /\ UNCHANGED <<logfile_manager_, logfile_manager_compaction_, dsk, index_,
                 index_compaction_, is_compaction_in_progress_, update_index,
                 compaction, snapshot_vars, client, hist>>

Next ==
  \/ \E orders \in Batches(client, MaxBatch, MaxOrders) : DataWorker(orders) /\ UNCHANGED threads
  \/ IndexPick /\ UNCHANGED threads
  \/ IndexInsertAll /\ UNCHANGED threads
  \/ \E key \in Keys : GetKey(key) /\ UNCHANGED threads
  \/ GetReturn /\ UNCHANGED threads
  \/ \E range \in CompactionRanges : CompactionBegin(range[1], range[2]) /\ UNCHANGED threads
  \/ CompactionRewrite /\ UNCHANGED threads
  \/ CompactionMerge /\ UNCHANGED threads
  \/ CompactionDrain /\ UNCHANGED threads
  \/ CompactionRemove /\ UNCHANGED threads
  \/ GetNewSnapshotData /\ UNCHANGED threads
  \/ \E snapshot_id \in 1..MaxSnapshots : ReleaseSnapshot(snapshot_id) /\ UNCHANGED threads
  \/ CloseAndReopen /\ UNCHANGED threads

Spec == Init /\ [][Next]_vars

\* The engine with no compaction and no snapshot, for more orders.
NextStore ==
  \/ \E orders \in Batches(client, MaxBatch, MaxOrdersStore) : DataWorker(orders) /\ UNCHANGED threads
  \/ IndexPick /\ UNCHANGED threads
  \/ IndexInsertAll /\ UNCHANGED threads
  \/ \E key \in Keys : GetKey(key) /\ UNCHANGED threads
  \/ GetReturn /\ UNCHANGED threads
  \/ CloseAndReopen /\ UNCHANGED threads

SpecStore == Init /\ [][NextStore]_vars

\* The header of a closed file becomes unreadable on secondary storage:
\* LogFileHeader::DecodeFrom fails on it from then on.  One file at a time.
DamageHeader(fileid) ==
  /\ Running
  /\ got = NoGet
  /\ fileid \in DOMAIN dsk.main
  /\ ~(logfile_manager_.has_file /\ logfile_manager_.fileid = fileid)
  /\ \A f \in DOMAIN dsk.main : dsk.main[f].header.written
  /\ dsk' = [dsk EXCEPT !.main[fileid].header.written = FALSE]
  /\ UNCHANGED <<logfile_manager_, logfile_manager_compaction_, index_,
                 index_compaction_, is_compaction_in_progress_, update_index,
                 compaction, snapshot_vars, got, client, hist>>

\* The footer of a closed file loses its last bytes on secondary storage:
\* the magic number and the checksum LoadFile reads are not there any more.
TearFooter(fileid) ==
  /\ Running
  /\ got = NoGet
  /\ fileid \in DOMAIN dsk.main
  /\ ~(logfile_manager_.has_file /\ logfile_manager_.fileid = fileid)
  /\ HasValidFooter(dsk.main[fileid])
  /\ dsk' = [dsk EXCEPT !.main[fileid].size = @ - SizeFooterFixed]
  /\ hist' = [hist EXCEPT !.opened = 0]
  /\ UNCHANGED <<logfile_manager_, logfile_manager_compaction_, index_,
                 index_compaction_, is_compaction_in_progress_, update_index,
                 compaction, snapshot_vars, got, client>>

\* The engine opened several times on a directory where footers are lost.
NextRecover ==
  \/ \E orders \in Batches(client, MaxBatch, MaxOrders) : DataWorker(orders) /\ UNCHANGED threads
  \/ IndexPick /\ UNCHANGED threads
  \/ IndexInsertAll /\ UNCHANGED threads
  \/ \E fileid \in 1..MaxOrders : TearFooter(fileid) /\ UNCHANGED threads
  \/ Reopen(MaxReopensRecover) /\ UNCHANGED threads

SpecRecover == Init /\ [][NextRecover]_vars

\* The engine with compactions over files whose header may be damaged.
NextDamage ==
  \/ \E orders \in Batches(client, 1, MaxOrders) : DataWorker(orders) /\ UNCHANGED threads
  \/ IndexPick /\ UNCHANGED threads
  \/ IndexInsertAll /\ UNCHANGED threads
  \/ \E fileid \in 1..MaxOrders : DamageHeader(fileid) /\ UNCHANGED threads
  \/ \E range \in CompactionRanges : CompactionBegin(range[1], range[2]) /\ UNCHANGED threads
  \/ CompactionRewrite /\ UNCHANGED threads
  \/ CompactionMerge /\ UNCHANGED threads
  \/ CompactionDrain /\ UNCHANGED threads
  \/ CompactionRemove /\ UNCHANGED threads

SpecDamage == Init /\ [][NextDamage]_vars

\* The batches of MaxBatch orders that are each a Remove or a Put of a small
\* value in one chunk.
FullBatches ==
  {orders \in Batches(client, MaxBatch, MaxOrdersCompactions) :
     /\ Len(orders) = MaxBatch
     /\ \A i \in 1..Len(orders) :
          IsSelfContained(orders[i]) /\ orders[i].size_value <= SizeSmall}

\* The engine with several calls of Compaction in one process, each over the
\* range the compaction worker passes.
NextCompactions ==
  \/ \E orders \in FullBatches : DataWorker(orders) /\ UNCHANGED threads
  \/ IndexPick /\ UNCHANGED threads
  \/ IndexInsertAll /\ UNCHANGED threads
  \/ CompactionStart(1, logfile_manager_.sequence_fileid + 1, MaxCompactionsRepeated) /\ UNCHANGED threads
  \/ CompactionRewrite /\ UNCHANGED threads
  \/ CompactionMerge /\ UNCHANGED threads
  \/ CompactionDrain /\ UNCHANGED threads
  \/ CompactionRemove /\ UNCHANGED threads

SpecCompactions == Init /\ [][NextCompactions]_vars

\* The batches of self-contained Put orders with small values, for two keys
\* of different hashes.
SmallBatches ==
  {orders \in Batches(client, MaxBatch, MaxOrdersSnapshot) :
     \A i \in 1..Len(orders) :
       /\ IsSelfContained(orders[i]) /\ orders[i].size_value <= SizeSmall
       /\ orders[i].type = "put" /\ orders[i].key \in {"k1", "k3"}}

\* The engine with one compaction and one snapshot read by a read-only engine.
NextSnapshot ==
  \/ \E orders \in SmallBatches : DataWorker(orders) /\ UNCHANGED threads
  \/ IndexPick /\ UNCHANGED threads
  \/ IndexInsertAll /\ UNCHANGED threads
  \/ CompactionBegin(1, logfile_manager_.sequence_fileid + 1) /\ UNCHANGED threads
  \/ CompactionRewrite /\ UNCHANGED threads
  \/ CompactionMerge /\ UNCHANGED threads
  \/ CompactionDrain /\ UNCHANGED threads
  \/ CompactionRemove /\ UNCHANGED threads
  \/ NewSnapshot /\ UNCHANGED threads
  \/ \E fileids_ignore \in IgnoreSets : OpenSnapshot(fileids_ignore) /\ UNCHANGED threads

SpecSnapshot == Init /\ [][NextSnapshot]_vars

\* The batches of one self-contained order with a small value.
SmallOrders ==
  {orders \in Batches(client, 1, MaxOrdersReadOnly) :
     /\ Len(orders) = 1
     /\ IsSelfContained(orders[1]) /\ orders[1].size_value <= SizeSmall}

\* The engine over files whose header or footer may be damaged, with
\* compactions, and a read-only engine opened on its directory.
NextReadOnly ==
  \/ \E orders \in SmallOrders : DataWorker(orders) /\ UNCHANGED threads
  \/ IndexPick /\ UNCHANGED threads
  \/ IndexInsertAll /\ UNCHANGED threads
  \/ \E fileid \in 1..MaxOrdersReadOnly : DamageHeader(fileid) /\ UNCHANGED threads
  \/ \E fileid \in 1..MaxOrdersReadOnly : TearFooter(fileid) /\ UNCHANGED threads
  \/ CompactionBegin(1, logfile_manager_.sequence_fileid + 1) /\ UNCHANGED threads
  \/ CompactionRewrite /\ UNCHANGED threads
  \/ CompactionMerge /\ UNCHANGED threads
  \/ CompactionDrain /\ UNCHANGED threads
  \/ CompactionRemove /\ UNCHANGED threads
  \/ NewSnapshot /\ UNCHANGED threads
  \/ \E fileids_ignore \in IgnoreSets : OpenSnapshot(fileids_ignore) /\ UNCHANGED threads

SpecReadOnly == Init /\ [][NextReadOnly]_vars

\* The data worker enters OpenNewFile at the head of a batch, no file being
\* active, and increments the two sequences.
DataWorkerOpens ==
  /\ Running
  /\ got = NoGet
  /\ update_index.state = "idle"
  /\ ~logfile_manager_.has_file
  /\ ~threads.opening
  /\ SmallBatches # {}
  /\ logfile_manager_' = OpenNewFileIncrement(logfile_manager_)
  /\ threads' = [threads EXCEPT !.opening = TRUE]
  /\ got' = NoGet
  /\ UNCHANGED <<logfile_manager_compaction_, dsk, index_, index_compaction_,
                 is_compaction_in_progress_, update_index, compaction, snapshot_vars,
                 client, hist>>

\* The data worker reads the sequences, opens the file and writes the batch.
DataWorkerOpened(orders) ==
  /\ threads.opening
  /\ DataWorkerFrom(OpenNewFileGet([lm |-> logfile_manager_, files |-> dsk.main]), orders)
  /\ threads' = [threads EXCEPT !.opening = FALSE]

\* The data worker and the compaction worker, the steps of OpenNewFile taken
\* one at a time: steps 1 to 11 of Compaction hold no lock of the data worker.
NextFileids ==
  \/ \E orders \in SmallBatches :
       ~threads.opening /\ DataWorker(orders) /\ UNCHANGED threads
  \/ DataWorkerOpens
  \/ \E orders \in SmallBatches : DataWorkerOpened(orders)
  \/ IndexPick /\ UNCHANGED threads
  \/ IndexInsertAll /\ UNCHANGED threads
  \/ CompactionBegin(1, logfile_manager_.sequence_fileid + 1) /\ UNCHANGED threads
  \/ CompactionRewrite /\ UNCHANGED threads
  \/ CompactionMerge /\ UNCHANGED threads
  \/ CompactionDrain /\ UNCHANGED threads
  \/ CompactionRemove /\ UNCHANGED threads

SpecFileids == Init /\ [][NextFileids]_vars

(***************************************************************************)
(* The data worker with clients that may send a chunk whose first chunk    *)
(* the engine never recorded.                                              *)
(***************************************************************************)
\* Chunks that are not first chunks: the last chunk of a small and of a large
\* value of k1 when the client has no entry in flight, and a middle chunk of
\* k2 at any time.
ChunkMenu(n, chunk) ==
  {PutOrder("t1", "k2", n, 1, 1, 3)}
  \cup (IF chunk = NoOrder
        THEN {LastChunkOf(PutOrder("t1", "k1", n, 0, 1, SizeChunked)),
              LastChunkOf(PutOrder("t1", "k1", n, 0, SizeLarge \div 2, SizeLarge))}
        ELSE {})

RECURSIVE ChunkBatches(_, _)
ChunkBatches(cl, len) ==
  IF len = 0 \/ cl.n >= MaxOrdersChunks THEN {<<>>}
  ELSE {<<>>} \cup
       UNION {{<<order>> \o rest : rest \in ChunkBatches(ClientAfter(cl, order), len - 1)} :
                order \in OrderMenu(cl.n + 1, cl.chunk) \cup ChunkMenu(cl.n + 1, cl.chunk)}

NextChunks ==
  \/ \E orders \in ChunkBatches(client, MaxBatch) : DataWorker(orders) /\ UNCHANGED threads
  \/ IndexPick /\ UNCHANGED threads
  \/ IndexInsertAll /\ UNCHANGED threads

SpecChunks == Init /\ [][NextChunks]_vars

(***************************************************************************)
(* The threads of one process and its locks.  The steps are those of the   *)
(* actions above, each taken where the code takes it between its locks.    *)
(***************************************************************************)
engine_vars ==
  <<logfile_manager_, logfile_manager_compaction_, dsk, index_, index_compaction_,
    is_compaction_in_progress_, update_index, compaction, sequence_snapshot_,
    snapshotids_to_fileids_, num_references_to_unused_files_, got, client, hist,
    snapshot>>

\* No thread made an invalid access and exit(-1) was not called.
Alive == Running /\ ~threads.fault

\* mutex_write_.unlock() by a thread that does not hold the mutex is
\* undefined: the mutex is released under its holder, or nothing happens.
UnlockOutcomes == {"released", "ignored"}

\* ReleaseWriteLock() called by thread t; `ub` is what the unlock does when
\* t does not hold mutex_write_.
ReleaseWriteLock(th, t, ub) ==
  IF th.mutex_write_ = t \/ ub = "released"
  THEN [th EXCEPT !.mutex_write_ = "none"]
  ELSE th

\* A variant of AcquireWriteLock that does not wait for the readers.
AcquireWriteLockNoWait(t) ==
  /\ Alive
  /\ threads.acquiring[t] = "lock"
  /\ threads.mutex_write_ = "none"
  /\ threads' = [threads EXCEPT !.mutex_write_ = t, !.acquiring[t] = "no"]
  /\ UNCHANGED engine_vars

\* AcquireWriteLock() called by thread t: mutex_write_.lock(), then the loop
\* that waits until num_readers_ is 0.
AcquireWriteLock(t) ==
  /\ Alive
  /\ \/ /\ threads.acquiring[t] = "lock"
        /\ threads.mutex_write_ = "none"
        /\ threads' = [threads EXCEPT !.mutex_write_ = t, !.acquiring[t] = "wait"]
     \/ /\ threads.acquiring[t] = "wait"
        /\ threads.num_readers_ = 0
        /\ threads' = [threads EXCEPT !.acquiring[t] = "no"]
  /\ UNCHANGED engine_vars

\* StorageEngine::Get called by thread r: the increment of num_readers_
\* under mutex_write_ and mutex_read_; then the lookups, each under
\* mutex_index_, and the decrement.
GetCall(r) ==
  /\ Alive
  /\ \/ /\ threads.pc[r] = "idle"
        /\ threads.mutex_write_ = "none"
        /\ threads' = [threads EXCEPT !.pc[r] = "reading", !.num_readers_ = @ + 1]
     \/ /\ threads.pc[r] = "reading"
        /\ threads.mutex_index_ = "none"
        /\ threads' = [threads EXCEPT !.pc[r] = "idle", !.num_readers_ = @ - 1]
  /\ UNCHANGED engine_vars

\* ProcessingLoopData.  flush_buffer.Wait() returns with orders, or after
\* Close signalled the event; after the write the thread is blocked in
\* update_index.StartAndBlockUntilDone until the index worker calls Done().
\* A write through a manager that Close closed uses the buffers Close freed.
ProcessingLoopDataOf(len, max) ==
  /\ Alive
  /\ \/ /\ threads.pc["data"] = "idle"
        /\ threads.stop_requested_
        /\ threads' = [threads EXCEPT !.pc["data"] = "exited"]
        /\ UNCHANGED engine_vars
     \/ /\ threads.pc["data"] = "idle"
        /\ ~threads.stop_requested_
        /\ Batches(client, len, max) # {<<>>}
        /\ threads' = [threads EXCEPT !.pc["data"] = "write", !.acquiring["data"] = "lock"]
        /\ UNCHANGED engine_vars
     \/ /\ threads.pc["data"] = "write"
        /\ threads.acquiring["data"] = "no"
        /\ \E orders \in Batches(client, len, max) : DataWorker(orders)
        /\ \E ub \in UnlockOutcomes :
             threads' = [ReleaseWriteLock(threads, "data", ub) EXCEPT !.pc["data"] = "blocked"]
     \/ /\ threads.pc["data"] = "write"
        /\ threads.acquiring["data"] = "no"
        /\ logfile_manager_.is_closed
        /\ threads' = [threads EXCEPT !.fault = TRUE]
        /\ UNCHANGED engine_vars

ProcessingLoopData == ProcessingLoopDataOf(1, MaxOrdersThreads)

\* ProcessingLoopIndex.  update_index.Wait() returns with an update, or
\* after Close signalled the event; a stop request makes the thread return
\* without Done().
ProcessingLoopIndex ==
  /\ Alive
  /\ \/ /\ threads.pc["index"] = "idle"
        /\ threads.stop_requested_
        /\ threads' = [threads EXCEPT !.pc["index"] = "exited"]
        /\ UNCHANGED engine_vars
     \/ /\ threads.pc["index"] = "idle"
        /\ ~threads.stop_requested_
        /\ threads.mutex_index_ = "none"
        /\ IndexPick
        /\ threads' = [threads EXCEPT !.pc["index"] = "insert", !.mutex_index_ = "index"]
     \/ /\ threads.pc["index"] = "insert"
        /\ IndexInsertAll
        /\ threads' = [threads EXCEPT !.pc["index"] = "idle", !.pc["data"] = "idle",
                                      !.mutex_index_ = "none"]

\* ProcessingLoopCompaction and the Compaction it calls when the trigger
\* file exists.  Steps 1 to 11 take no lock; step 12 calls AcquireWriteLock
\* in its loop only, and ReleaseWriteLock after the loop in any case; when
\* Compaction returns the thread calls sleep_for(forever), 10^17 ms.
ProcessingLoopCompaction ==
  /\ Alive
  /\ \/ /\ threads.pc["compaction"] = "idle"
        /\ threads.stop_requested_
        /\ threads' = [threads EXCEPT !.pc["compaction"] = "exited"]
        /\ UNCHANGED engine_vars
     \/ /\ threads.pc["compaction"] = "idle"
        /\ CompactionBegin(1, logfile_manager_.sequence_fileid + 1)
        /\ threads' = [threads EXCEPT !.pc["compaction"] = "rewrite"]
     \/ /\ threads.pc["compaction"] = "rewrite"
        /\ CompactionRewrite
        /\ threads' = [threads EXCEPT
                         !.pc["compaction"] =
                            IF compaction'.pc = "rewritten" THEN "merge" ELSE "sleeping",
                         !.acquiring["compaction"] =
                            IF /\ compaction'.pc = "rewritten"
                               /\ compaction'.map_index_shifted # EmptyIndex
                            THEN "lock" ELSE "no"]
     \/ /\ threads.pc["compaction"] = "merge"
        /\ threads.acquiring["compaction"] = "no"
        /\ CompactionMerge
        /\ \E ub \in UnlockOutcomes :
             threads' = [ReleaseWriteLock(threads, "compaction", ub) EXCEPT
                           !.pc["compaction"] = "drain",
                           !.acquiring["compaction"] = "lock"]
     \/ /\ threads.pc["compaction"] = "drain"
        /\ threads.acquiring["compaction"] = "no"
        /\ CompactionDrain
        /\ \E ub \in UnlockOutcomes :
             threads' = [ReleaseWriteLock(threads, "compaction", ub) EXCEPT
                           !.pc["compaction"] = "remove"]
     \/ /\ threads.pc["compaction"] = "remove"
        /\ CompactionRemove
        /\ threads' = [threads EXCEPT !.pc["compaction"] = "sleeping"]

\* StorageEngine::Close called by thread c.
Close(c) ==
  /\ Alive
  /\ \/ /\ threads.pc[c] = "idle"
        /\ ~threads.destroyed
        /\ threads.mutex_close_ = "none"
        /\ threads' = IF IsClosed(threads)
                      THEN [threads EXCEPT !.pc[c] = "returned"]
                      ELSE [threads EXCEPT !.pc[c] = "stop", !.acquiring[c] = "lock",
                                           !.mutex_close_ = c, !.is_closed_ = TRUE]
        /\ UNCHANGED engine_vars
     \/ /\ threads.pc[c] = "stop"
        /\ threads.acquiring[c] = "no"
        /\ \E closed \in {CloseLogfileManager([lm |-> logfile_manager_,
                                               files |-> dsk.main])} :
             /\ logfile_manager_' = closed.lm
             /\ dsk' = [dsk EXCEPT !.main = closed.files]
        /\ \E ub \in UnlockOutcomes :
             threads' = [ReleaseWriteLock(threads, c, ub) EXCEPT
                           !.pc[c] = "join", !.stop_requested_ = TRUE]
        /\ UNCHANGED <<logfile_manager_compaction_, index_, index_compaction_,
                       is_compaction_in_progress_, update_index, compaction,
                       snapshot_vars, got, client, hist>>
     \/ /\ threads.pc[c] = "join"
        /\ \A t \in Workers : threads.pc[t] = "exited"
        /\ threads' = [threads EXCEPT !.pc[c] = "returned",
                                      !.joined = [t \in Workers |-> @[t] + 1],
                                      !.deleted = @ + 1,
                                      !.mutex_close_ = "none"]
        /\ UNCHANGED engine_vars

\* ~StorageEngine after Close returned: ~LogfileManager calls Close() on
\* each of the two managers.
Destructor ==
  /\ Alive
  /\ ~threads.destroyed
  /\ \E c \in Closers : threads.pc[c] = "returned"
  /\ \A c \in Closers : threads.pc[c] \in {"idle", "returned"}
  /\ \E closed \in {CloseLogfileManager([lm |-> logfile_manager_, files |-> dsk.main])} :
       /\ logfile_manager_' = closed.lm
       /\ \E closed_compaction \in
              {CloseLogfileManager([lm |-> logfile_manager_compaction_,
                                    files |-> dsk.comp])} :
            /\ logfile_manager_compaction_' = closed_compaction.lm
            /\ dsk' = [dsk EXCEPT !.main = closed.files,
                                  !.comp = closed_compaction.files]
  /\ threads' = [threads EXCEPT !.destroyed = TRUE]
  /\ UNCHANGED <<index_, index_compaction_, is_compaction_in_progress_, update_index,
                 compaction, snapshot_vars, got, client, hist>>

NextThreads ==
  \/ \E t \in {"data", "compaction"} \cup Closers : AcquireWriteLock(t)
  \/ \E r \in Readers : GetCall(r)
  \/ ProcessingLoopData
  \/ ProcessingLoopIndex
  \/ ProcessingLoopCompaction
  \/ \E c \in Closers : Close(c)
  \/ Destructor

SpecThreads == Init /\ [][NextThreads]_vars

\* Step 12 bucket by bucket.  num_iterations_per_lock is 10 in the source;
\* here the write lock is released after every bucket.
num_iterations_per_lock == 1

\* The hashes of map_index_shifted that the loop of step 12 has not reached.
BucketsLeft(merged) ==
  {h \in Hashes : compaction.map_index_shifted[h] # <<>> /\ h \notin merged}

\* One iteration of the loop, up to index_.erase(hashedkey).
MergeBucketErase ==
  /\ threads.acquiring["compaction"] = "no"
  /\ threads.bucket = 0
  /\ BucketsLeft(threads.merged) # {}
  /\ \E h \in BucketsLeft(threads.merged) :
       /\ \A g \in BucketsLeft(threads.merged) : h <= g
       /\ index_' = [index_ EXCEPT ![h] = <<>>]
       /\ threads' = [threads EXCEPT
                        !.bucket = h,
                        !.counter_iterations = @ + 1,
                        !.locations_after =
                           SelectSeq(index_[h], LAMBDA location :
                                       FileIdOf(location) > compaction.fileid_end)]
  /\ UNCHANGED compaction

\* The rest of the iteration: the two inserts and the throttling.
MergeBucketInsert ==
  /\ threads.bucket # 0
  /\ index_' = [index_ EXCEPT ![threads.bucket] =
                  @ \o compaction.map_index_shifted[threads.bucket]
                    \o threads.locations_after]
  /\ threads' =
       IF threads.counter_iterations >= num_iterations_per_lock
       THEN [threads EXCEPT
               !.bucket = 0, !.locations_after = <<>>,
               !.merged = @ \cup {threads.bucket},
               !.counter_iterations = 0,
               !.mutex_write_ = "none",
               !.acquiring["compaction"] =
                  IF BucketsLeft(threads.merged \cup {threads.bucket}) # {}
                  THEN "lock" ELSE "no"]
       ELSE [threads EXCEPT
               !.bucket = 0, !.locations_after = <<>>,
               !.merged = @ \cup {threads.bucket}]
  /\ UNCHANGED compaction

\* The ReleaseWriteLock() after the loop.
MergeEnd ==
  /\ threads.acquiring["compaction"] = "no"
  /\ threads.bucket = 0
  /\ BucketsLeft(threads.merged) = {}
  /\ compaction' = [compaction EXCEPT !.pc = "merged"]
  /\ \E ub \in UnlockOutcomes :
       threads' = [ReleaseWriteLock(threads, "compaction", ub) EXCEPT
                     !.pc["compaction"] = "drain",
                     !.acquiring["compaction"] = "lock"]
  /\ UNCHANGED index_

\* ProcessingLoopCompaction with the loop of step 12 taken bucket by bucket.
ProcessingLoopCompactionBuckets ==
  \/ threads.pc["compaction"] # "merge" /\ ProcessingLoopCompaction
  \/ /\ Alive
     /\ threads.pc["compaction"] = "merge"
     /\ compaction.pc = "rewritten"
     /\ (MergeBucketErase \/ MergeBucketInsert \/ MergeEnd)
     /\ UNCHANGED <<logfile_manager_, logfile_manager_compaction_, dsk, index_compaction_,
                    is_compaction_in_progress_, update_index, snapshot_vars, got, client,
                    hist>>

\* The workers and two callers of Get, with batches of up to MaxBatch orders.
NextMerge ==
  \/ \E t \in {"data", "compaction"} : AcquireWriteLock(t)
  \/ \E r \in Readers : GetCall(r)
  \/ ProcessingLoopDataOf(MaxBatch, MaxOrders)
  \/ ProcessingLoopIndex
  \/ ProcessingLoopCompactionBuckets

SpecMerge == Init /\ [][NextMerge]_vars


(***************************************************************************)
(* The contract of the engine, stated over the result of the Get that the  *)
(* caller holds in `got`, the files of the directory and the history.      *)
(***************************************************************************)
\* The caller holds the result of a Get of a key that no order in the
\* hand-off to the index worker writes, and every decrement of begin() in
\* that Get gave end(), which is the outcome under which GetWithIndex walks
\* the whole bucket.
Answered == got # NoGet /\ got.wrapped /\ got.key \notin PendingKeys

\* The result in `got` is what the newest order applied for the key says.
AnswersExpected ==
  IF hist.expected[got.key].status = "ok"
  THEN got.status = "ok" /\ got.value = hist.expected[got.key].value
  ELSE got.status = "notfound"

\* C1 - Durability: when the newest order applied to the index for a key is a
\* completed Put, a Get of that key returns the value of that Put, before and
\* after a close and reopen, for small, multi-chunk and large entries.
C1_Durability ==
  (Answered /\ hist.expected[got.key].status = "ok") => AnswersExpected

\* C2 - Tombstone-wins: when the newest order applied for a key is a Remove,
\* a Get of that key returns NotFound, also while a compaction is in progress.
C2_TombstoneWins ==
  (Answered /\ hist.expected[got.key].status = "removed") => got.status = "notfound"

\* C3 - Newest-wins, the reopen: for a key that was Put several times, the
\* Get after a reopen gives the value that the Get gave when the engine was
\* closed.  It is stated for the keys that were given no large entry, and
\* while no order was written since the reopen.
C3_NewestWins ==
  (/\ Answered
   /\ hist.reopens > 0
   /\ hist.since = {}
   /\ hist.expected[got.key].puts >= 2
   /\ ~hist.expected[got.key].large
   /\ hist.closed[got.key].status = "ok")
    => (got.status = "ok" /\ got.value = hist.closed[got.key].value)


\* The caller holds the result of a Get made after Compaction returned, of a
\* key that no order wrote since Compaction began, and index_ answered the
\* key from a file of the range when Compaction began.
AnsweredAfterCompaction ==
  /\ Answered
  /\ compaction.pc = "done"
  /\ got.key \notin hist.since
  /\ hist.before[got.key].location # NoLocation
  /\ FileIdOf(hist.before[got.key].location) <= compaction.fileid_end

\* C4 - Compaction preserves liveness: after Compaction over [a,b] returned,
\* a key that had a live value in index_ whose newest location had
\* fileid <= b still has that value, and a key whose newest order in the
\* range was a Remove is still NotFound.
C4_CompactionPreservesLiveness ==
  (AnsweredAfterCompaction /\ hist.before[got.key].status \in {"ok", "notfound"})
    => (/\ got.status = hist.before[got.key].status
        /\ got.value = hist.before[got.key].value)

\* C5 - A Put that the data worker wrote while Compaction was running, and
\* that the index worker applied, is visible to Get during the compaction
\* and after it, whatever the interleaving of the three workers and
\* whatever the range of the compaction.
C5_PutDuringCompactionVisible ==
  (/\ Answered
   /\ compaction.pc # "idle"
   /\ hist.expected[got.key].status = "ok"
   /\ hist.expected[got.key].during)
    => AnswersExpected

\* C6 - No resurrection: after Compaction over [a,b] returned, a key whose
\* newest applied Put is at a location with fileid > b has the value at that
\* location.
C6_NoResurrection ==
  (/\ Answered
   /\ compaction.pc = "done"
   /\ hist.expected[got.key].status = "ok"
   /\ FileIdOf(hist.expected[got.key].location) > compaction.fileid_end)
    => AnswersExpected

\* C7 - Snapshot pinning: an obsolete file of a compaction that reached its
\* deletion step while snapshots were live is on disk, with its marker in
\* the locks directory, as long as one of those snapshots is not released.
C7_SnapshotPinning ==
  \A f \in DOMAIN hist.owed :
    hist.owed[f] \cap hist.live # {} => (f \in DOMAIN dsk.main /\ f \in dsk.locks)

\* C8 - An obsolete file is unlinked exactly when the last snapshot that
\* pinned it is released: it is on disk iff a snapshot that was live at the
\* deletion step is still live.
C8_UnlinkedAtLastRelease ==
  \A f \in hist.obsolete :
    (f \in DOMAIN dsk.main) <=> (hist.owed[f] \cap hist.live # {})

\* The files that hold an entry of which the last chunk is still to come.
FilesInFlight ==
  {FileIdOf(logfile_manager_.key_to_location[tk]) :
     tk \in DOMAIN logfile_manager_.key_to_location}

\* The log files that were written and are not the file being written.
FilesClosed ==
  {f \in DOMAIN dsk.main :
     /\ dsk.main[f].header.written
     /\ ~(logfile_manager_.has_file /\ logfile_manager_.fileid = f)}

\* C9 - A footer is written iff no write is in progress: a file that was
\* closed has a footer iff the file resource manager counts no write in
\* progress for its fileid.
C9_FooterIffNoWriteInProgress ==
  \A f \in FilesClosed :
    dsk.main[f].footer.written
      <=> GetNumWritesInProgress(logfile_manager_.file_resource_manager, f) = 0

\* The entries of file f that are large and complete.
LargeEntries(f) ==
  {i \in 1..Len(dsk.main[f].entries) :
     /\ SizeKey + dsk.main[f].entries[i].size_value > size_block
     /\ dsk.main[f].entries[i].bytes = dsk.main[f].entries[i].size_value
     /\ f \notin FilesInFlight}

\* C10 - Every complete entry with size_key + size_value over the block size
\* is alone in its file, and that file is flagged large and has a footer,
\* whether the entry came as several chunks or as one order.
C10_LargeEntryAlone ==
  \A f \in DOMAIN dsk.main :
    LargeEntries(f) # {} =>
      /\ Len(dsk.main[f].entries) = 1
      /\ IsFileLarge(logfile_manager_.file_resource_manager, f)
      /\ dsk.main[f].footer.written


\* The bytes of the entry at `location` are in its file, and the file size
\* the file resource manager holds covers them.
Persisted(location) ==
  /\ FileIdOf(location) \in DOMAIN dsk.main
  /\ \E e \in EntriesAt(dsk.main[FileIdOf(location)], OffsetOf(location)) :
       /\ e.bytes = e.size_value
       /\ OffsetOf(location) + EntrySize(e)
            <= GetFileSize(logfile_manager_.file_resource_manager, FileIdOf(location))

\* C11 - Pipeline ordering: every location the data worker hands to the index
\* worker, from the hand-off until the index worker has inserted it, is the
\* location of an entry whose bytes are written to its file with the file
\* size recorded.
C11_PipelineOrdering ==
  \A h \in Hashes : \A i \in 1..Len(update_index.map_index[h]) :
    Persisted(update_index.map_index[h][i])


\* The files RecoverFile rebuilt with an entry whose checksum did not match:
\* only RecoverFile sets the flag has_invalid_entries of a footer.
FilesRecovered ==
  {f \in DOMAIN dsk.main :
     dsk.main[f].footer.written /\ dsk.main[f].footer.has_invalid_entries}

\* The offset of the first entry of `entries` whose stored CRC32 differs from
\* the recomputed one; 0 if there is none.
FirstBadOffset(entries) ==
  IF \A i \in 1..Len(entries) : entries[i].crc32 = "valid" THEN 0
  ELSE entries[CHOOSE i \in 1..Len(entries) :
                 /\ entries[i].crc32 # "valid"
                 /\ \A j \in 1..(i - 1) : entries[j].crc32 = "valid"].offset

\* C16 - Recovery stops at the first bad entry: in a file that RecoverFile
\* rebuilt, the footer starts where the first entry with a bad CRC32 started
\* (the file was cut at the end of the entry before it), and neither the
\* footer index nor index_ holds an entry at or after that offset.
C16_RecoveryStopsAtFirstBadEntry ==
  \A f \in FilesRecovered :
    \A bad \in {FirstBadOffset(dsk.main[f].entries)} :
      bad # 0 =>
        /\ dsk.main[f].footer.offset_indexes = bad
        /\ \A i \in 1..Len(dsk.main[f].footer.index) :
             dsk.main[f].footer.index[i][2] < bad
        /\ \A h \in Hashes : \A i \in 1..Len(index_[h]) :
             FileIdOf(index_[h][i]) = f => OffsetOf(index_[h][i]) < bad


\* C19 - A single input file that fails during a compaction (footer not
\* loadable, header not decodable, stat failure) is skipped: the compaction
\* is not aborted, it goes on to the merge of step 12 and clears
\* is_compaction_in_progress_.
C19_FileFailureSkipped ==
  compaction.pc # "failed"


\* The positions in the bucket of `key` in index_ whose entry on secondary
\* storage has the key bytes `key`.
BucketMatches(key) ==
  {i \in 1..Len(index_[HashFunction(key)]) :
     GetEntry(logfile_manager_, dsk.main, index_[HashFunction(key)][i]).key = key}

\* What GetEntry reads at the newest location of BucketMatches(key).
NewestMatch(key) ==
  GetEntry(logfile_manager_, dsk.main,
           index_[HashFunction(key)][CHOOSE i \in BucketMatches(key) :
                                       \A j \in BucketMatches(key) : j <= i])

\* C20 - Hash collisions are rejected by full-key comparison: a Get of k
\* never returns the value or the tombstone of another key with the same
\* hash; it returns the result of the newest location of the bucket whose
\* key bytes on secondary storage equal k, and NotFound if the bucket has
\* no such location.
C20_FullKeyComparison ==
  got # NoGet =>
    IF BucketMatches(got.key) = {} THEN got.status = "notfound"
    ELSE IF NewestMatch(got.key).status = "remove" THEN got.status = "notfound"
    ELSE got.status = "ok" /\ got.value = NewestMatch(got.key).value


\* The locations of file `fileid` in `index`, bucket by bucket.
IndexOfFile(index, fileid) ==
  [h \in Hashes |-> SelectSeq(index[h], LAMBDA location : FileIdOf(location) = fileid)]

\* C17 - Recovery idempotence: opening the same directory twice in writable
\* mode yields the same index after the second open as after the first, and
\* the second open leaves every file unchanged: no truncation, no new
\* footer, no unlink.
C17_RecoveryIdempotent ==
  [][(hist.opened > 0 /\ hist'.reopens = hist.reopens + 1)
       => (index_' = index_ /\ dsk'.main = dsk.main)]_vars

\* The directory was opened twice in a row, the first open having rebuilt
\* the footer of a file with invalid entries and put locations in the index.
C17_Witness ==
  /\ hist.opened = 2
  /\ FilesRecovered # {}
  /\ index_ # EmptyIndex

\* RecoverFile fails on `file`: large file, or no entry scanned.
RecoverFileFails(file) ==
  \/ IsTypeLarge(file.header.filetype)
  \/ ScanEntries(file, SIZE_LOGFILE_HEADER) = <<>>

\* C18 - Load failure handling at open: when LoadFile fails on a file and the
\* engine is writable, RecoverFile is attempted; when RecoverFile fails too
\* the file is unlinked; in both cases the index holds no location that
\* comes from the rejected footer: it holds none of an unlinked file, and of
\* a recovered file exactly the locations of the footer RecoverFile wrote.
C18_LoadFailureHandling ==
  [][hist'.reopens = hist.reopens + 1 =>
       \A f \in RejectedFiles(CleanDirectory([dsk EXCEPT !.main = FilesAtClose],
                                             FALSE).main) :
         IF RecoverFileFails(FilesAtClose[f])
         THEN /\ f \notin DOMAIN dsk'.main
              /\ IndexOfFile(index_', f) = EmptyIndex
         ELSE /\ f \in DOMAIN dsk'.main
              /\ HasValidFooter(dsk'.main[f])
              /\ dsk'.main[f].footer.index
                   = ValidLogIndex(ScanEntries(FilesAtClose[f], SIZE_LOGFILE_HEADER))
              /\ IndexOfFile(index_', f)
                   = InsertLogIndex(EmptyIndex, f, dsk'.main[f].footer.index)]_vars

\* An open rejected the footer of two files: one was unlinked, the other
\* carries the footer RecoverFile wrote and has a location in the index.
C18_Witness ==
  /\ hist.opened > 0
  /\ \E f \in hist.rejected : f \notin DOMAIN dsk.main
  /\ \E f \in hist.rejected :
       /\ f \in DOMAIN dsk.main
       /\ HasValidFooter(dsk.main[f])
       /\ IndexOfFile(index_, f) # EmptyIndex


\* Thread t is between its AcquireWriteLock and its ReleaseWriteLock.
Writing(t) ==
  /\ threads.acquiring[t] = "no"
  /\ \/ t = "data" /\ threads.pc[t] = "write"
     \/ t \in Closers /\ threads.pc[t] = "stop"
     \/ /\ t = "compaction"
        /\ \/ threads.pc[t] = "merge" /\ compaction.map_index_shifted # EmptyIndex
           \/ threads.pc[t] = "drain"

\* C12 - Reader/writer gate: while a thread is between AcquireWriteLock and
\* ReleaseWriteLock num_readers_ is 0 and no Get is in its read section, so no
\* Get enters before the release; num_readers_ is never negative and is the
\* number of Gets between their increment and their decrement.
C12_ReaderWriterGate ==
  /\ threads.num_readers_ = Cardinality({r \in Readers : threads.pc[r] = "reading"})
  /\ (\E t \in Workers \cup Closers : Writing(t)) => threads.num_readers_ = 0

\* The compaction thread leaves the part of Compaction it is in at `pc`.
CompactionLeaves(pc) ==
  threads.pc["compaction"] = pc /\ threads'.pc["compaction"] # pc

\* C13 - mutex_index_ serializes all mutations of index_ and
\* index_compaction_: while the index worker is in its insert loop,
\* Compaction does not scan the index the worker inserts into (step 2), does
\* not merge buckets into it (step 12) and does not drain index_compaction_
\* into index_ (step 13).
C13_IndexMutexSerializes ==
  [][threads.pc["index"] = "insert" =>
       /\ ~(/\ CompactionLeaves("rewrite")
            /\ compaction'.fileids_compaction # {}
            /\ update_index.index = "index_")
       /\ ~(/\ CompactionLeaves("merge")
            /\ compaction.map_index_shifted # EmptyIndex
            /\ update_index.index = "index_")
       /\ ~CompactionLeaves("drain")]_vars

\* C14 - Cancellation terminates: once Close has requested the stop and
\* signalled both events, the workers exit and Close returns from joining
\* them, also after the compaction worker ran a compaction: while Close is
\* joining, the compaction worker is not in the sleep_for(forever) that
\* follows Compaction, a position it never leaves.
C14_CancellationTerminates ==
  \A c \in Closers :
    (Alive /\ threads.pc[c] = "join") => threads.pc["compaction"] # "sleeping"

\* A step in which a call of Close finds the object closed: StorageEngine::Close
\* by a caller, or LogfileManager::Close on logfile_manager_ by the destructor.
SecondClose ==
  \/ \E c \in Closers : threads.pc[c] = "idle" /\ threads'.pc[c] = "returned"
  \/ ~threads.destroyed /\ threads'.destroyed

\* C15 - Close is idempotent: a second StorageEngine::Close, after or during
\* the first, and a second LogfileManager::Close change nothing: no file is
\* flushed or given a second footer, no thread is joined twice, no buffer is
\* freed twice.
C15_CloseIdempotent ==
  /\ [](/\ \A t \in Workers : threads.joined[t] <= 1
        /\ threads.deleted <= 1
        /\ logfile_manager_.buffers_freed <= 1
        /\ logfile_manager_compaction_.buffers_freed <= 1)
  /\ [][SecondClose =>
          /\ dsk'.main = dsk.main
          /\ logfile_manager_' = logfile_manager_
          /\ threads'.joined = threads.joined
          /\ threads'.deleted = threads.deleted]_vars

\* Both callers of Close returned, the workers were joined, the buffers were
\* freed, a file got its footer at the close and the destructors ran.
C15_Witness ==
  /\ threads.destroyed
  /\ \A c \in Closers : threads.pc[c] = "returned"
  /\ \A t \in Workers : threads.joined[t] = 1
  /\ logfile_manager_.buffers_freed = 1
  /\ \E f \in DOMAIN dsk.main : dsk.main[f].footer.written


\* A compaction over every fileid in use has returned, every file had its
\* footer when it began, and no order was written or handed to the index
\* worker since.
CompactedAll ==
  /\ compaction.pc = "done"
  /\ hist.full
  /\ hist.since = {}
  /\ update_index.state = "idle"

\* The locations of index_ in the bucket of `key` that do not name an entry
\* of another key: the entry there has the key bytes `key`, or nothing can be
\* read there.
LocationsOf(key) ==
  {index_[HashFunction(key)][i] : i \in
     {j \in 1..Len(index_[HashFunction(key)]) :
        GetEntry(logfile_manager_, dsk.main, index_[HashFunction(key)][j]).key
          \in {key, "none"}}}

\* C21 - Compaction deduplicates: after a compaction over the full range
\* with no concurrent write, a key whose newest order is a Put has exactly one
\* location in index_, in a compacted or large file, and Get returns the
\* value of that Put; a key whose newest order is a Remove has no location.
C21_CompactionDeduplicates ==
  CompactedAll =>
    \A k \in Keys :
      /\ hist.expected[k].status = "ok" =>
           /\ Cardinality(LocationsOf(k)) = 1
           /\ \A l \in LocationsOf(k) :
                IsFileCompacted(logfile_manager_.file_resource_manager, FileIdOf(l))
           /\ GetWithIndex(logfile_manager_, dsk.main, index_, k, "wrap").status = "ok"
           /\ GetWithIndex(logfile_manager_, dsk.main, index_, k, "wrap").value
                = hist.expected[k].value
      /\ hist.expected[k].status = "removed" => LocationsOf(k) = {}


\* The order of LoadDatabase: ascending "timestamp-fileid".
SortsBefore(files, f, g) ==
  \/ files[f].header.timestamp < files[g].header.timestamp
  \/ (files[f].header.timestamp = files[g].header.timestamp /\ f < g)

\* The step in which Compaction goes through its steps 1 to 11.
RewriteStep == compaction.pc = "begun" /\ compaction'.pc = "rewritten"

\* The files that step 9 of that step renamed into the directory.
FilesWritten == DOMAIN dsk'.main \ DOMAIN dsk.main

\* The input files of that step: the files of fileids_compaction whose
\* entries step 6 reads, which are the files the compacted files replace.
FilesReplaced ==
  {f \in compaction'.fileids_compaction :
     ~IsFileLarge(logfile_manager_.file_resource_manager, f)}

\* The files the main log manager opened after every one of those inputs.
FilesOpenedAfter(inputs) ==
  {g \in DOMAIN dsk.main :
     /\ dsk.main[g].header.written
     /\ dsk.main[g].header.filetype \in {"log", "large"}
     /\ \A i \in inputs : g > i}

\* Every compacted file sorts before every file that the main log manager
\* opened under a greater fileid.
LaterFilesSortAfter ==
  \A f \in DOMAIN dsk.main : \A g \in DOMAIN dsk.main :
    (/\ dsk.main[f].header.filetype = "compacted"
     /\ dsk.main[g].header.written
     /\ dsk.main[g].header.filetype \in {"log", "large"}
     /\ g > f)
      => SortsBefore(dsk.main, f, g)

\* C22 - Every file written by a compaction carries the maximum header
\* timestamp of the input files of that compaction; in the order of
\* LoadDatabase it sorts after every input file and before every file the
\* main log manager opened after the inputs, at that time or later; for a
\* first and for a later call of Compaction.
C22_CompactedTimestamp ==
  [][/\ RewriteStep =>
          \A f \in FilesWritten :
            /\ \E i \in FilesReplaced :
                 dsk'.main[f].header.timestamp = dsk.main[i].header.timestamp
            /\ \A i \in FilesReplaced :
                 /\ dsk.main[i].header.timestamp <= dsk'.main[f].header.timestamp
                 /\ SortsBefore(dsk'.main, i, f)
            /\ \A g \in FilesOpenedAfter(FilesReplaced) : SortsBefore(dsk'.main, f, g)
     /\ LaterFilesSortAfter']_vars

\* C23 - Within each hash bucket the compaction swap is atomic for readers:
\* while a bucket of index_ is erased and not yet refilled by step 12, no
\* thread is inside a Get, under every interleaving of the readers with the
\* bucketed merge.
C23_BucketSwapAtomic ==
  threads.bucket # 0 => \A r \in Readers : threads.pc[r] # "reading"

\* The merge released the write lock after one bucket, took it again and
\* holds the next bucket erased and not yet refilled.
C23_Witness ==
  /\ threads.bucket # 0
  /\ threads.merged # {}
  /\ index_[threads.bucket] = <<>>
  /\ compaction.map_index_shifted[threads.bucket] # <<>>


\* The files a read-only engine shows: those of its fileid iterator and
\* those its index_ names.
VisibleFiles(engine) ==
  {engine.fileids_iterator_[i] : i \in 1..Len(engine.fileids_iterator_)}
    \cup UNION {{FileIdOf(engine.index_[h][i]) : i \in 1..Len(engine.index_[h])} :
                  h \in Hashes}

\* The constructor of the read-only engine returns, with a bound that is not 0.
SnapshotOpens ==
  snapshot.state = "taken" /\ snapshot'.state = "open" /\ snapshot.fileid_end # 0

\* C24 - A read-only engine opened with an ignore set I and a bound
\* fileid_end = E, E not 0, loads into its index and lists in its fileid
\* iterator only files with fileid <= E that are not in I, in ascending
\* (timestamp, fileid) order, and no file created after the snapshot was
\* taken.
C24_SnapshotView ==
  [][SnapshotOpens =>
       /\ \A f \in VisibleFiles(snapshot') :
            /\ f <= snapshot.fileid_end
            /\ f \notin snapshot'.fileids_ignore
            /\ f \in snapshot.existing
       /\ \A i, j \in 1..Len(snapshot'.fileids_iterator_) :
            i < j => /\ snapshot'.fileids_iterator_[i] # snapshot'.fileids_iterator_[j]
                     /\ SortsBefore(dsk.main, snapshot'.fileids_iterator_[i],
                                    snapshot'.fileids_iterator_[j])]_vars

\* A read-only engine is open with a bound, shows two files and an entry,
\* was told to ignore a file of the directory that is under the bound, and
\* the directory holds a file created after the snapshot was taken.
C24_Witness ==
  /\ snapshot.state = "open"
  /\ snapshot.fileid_end # 0
  /\ Len(snapshot.fileids_iterator_) >= 2
  /\ snapshot.index_ # EmptyIndex
  /\ \E f \in snapshot.fileids_ignore \cap DOMAIN dsk.main :
       f <= snapshot.fileid_end /\ f \in ListedFiles(dsk.main, {}, 0)
  /\ \E f \in DOMAIN dsk.main \ snapshot.existing : f \in ListedFiles(dsk.main, {}, 0)


\* C25 - Rotation on a full buffer: when the buffer is over the block size
\* before an order is processed, the active file is closed and a fresh file
\* opened before the order is encoded; so every location of a regular file
\* that a batch returns names a file of the directory, at an offset below the
\* footer of that file, and a footer written to that file holds the pair of
\* the location.
C25_RotationOnFullBuffer ==
  \A h \in Hashes : \A i \in 1..Len(update_index.map_index[h]) :
    LET location == update_index.map_index[h][i]
        file == FileOf(dsk.main, FileIdOf(location))
    IN ~IsTypeLarge(file.header.filetype) =>
         /\ FileIdOf(location) \in DOMAIN dsk.main
         /\ file.footer.written =>
              /\ OffsetOf(location) < file.footer.offset_indexes
              /\ \E j \in 1..Len(file.footer.index) :
                   file.footer.index[j] = <<h, OffsetOf(location)>>


\* The pairs of the entries written into `file`, in write order.
PairsOfEntries(file) ==
  [i \in 1..Len(file.entries) |->
     <<HashFunction(file.entries[i].key), file.entries[i].offset>>]

\* C26 - Footer index completeness: the footer index of a file whose footer
\* is written holds exactly one (hash, offset) pair for every entry written
\* into that file, in write order, and no other pair; for the regular files,
\* for the files closed with entries in flight and for the dedicated large
\* files.  Stated of the footers the write path wrote: no file went through
\* LoadDatabase and RecoverFile yet.
C26_FooterIndexComplete ==
  hist.reopens = 0 =>
    \A f \in DOMAIN dsk.main :
      dsk.main[f].footer.written => dsk.main[f].footer.index = PairsOfEntries(dsk.main[f])


\* What the iteration of WriteOrdersAndFlushFile for `order` must do to the
\* update map and to the records of (tid, key), from the state `acc`.
OrderRecorded(acc, order) ==
  LET acc1 == WriteOrder(acc, order)
      h == HashFunction(order.key)
      tk == <<order.tid, order.key>>
      recorded == Lookup(acc.s.lm.key_to_location, tk, NoLocation)
      completes == IsSelfContained(order) \/ (IsLastChunk(order) /\ recorded # NoLocation)
      before == acc.map_index_out[h]
      after == acc1.map_index_out[h]
  IN /\ \A g \in Hashes \ {h} : acc1.map_index_out[g] = acc.map_index_out[g]
     /\ IF completes
        THEN /\ Len(after) = Len(before) + 1
             /\ SubSeq(after, 1, Len(before)) = before
             /\ after[Len(after)] # NoLocation
             /\ ~IsSelfContained(order) => after[Len(after)] = recorded
             /\ tk \notin DOMAIN acc1.s.lm.key_to_location
             /\ tk \notin DOMAIN acc1.s.lm.key_to_headersize
        ELSE after = before
     /\ (IsFirstChunk(order) /\ ~IsSelfContained(order)) =>
          /\ Lookup(acc1.s.lm.key_to_location, tk, NoLocation) # NoLocation
          /\ Lookup(acc1.s.lm.key_to_headersize, tk, 0) = SizeEntryHeader

\* The state of WriteOrdersAndFlushFile before order number i of `orders`.
BeforeOrder(orders, i) ==
  WriteOrdersLoop([s |-> [lm |-> logfile_manager_, files |-> dsk.main],
                   map_index_out |-> EmptyIndex],
                  SubSeq(orders, 1, i - 1))

\* C27 - The update map of WriteOrdersAndFlushFile gets a (hash, location)
\* pair for an order iff the order completes an entry (self-contained order,
\* Remove, or last chunk whose first chunk was recorded); a first chunk that
\* is not self-contained adds nothing and records its location and header
\* size under (tid, key); the record is erased when the entry completes and
\* the location of the last chunk is the one recorded.  Stated of every order
\* of every batch the data worker may be handed next.
C27_UpdateMap ==
  (Running /\ update_index.state = "idle") =>
    \A orders \in Batches(client, MaxBatch, MaxOrdersStore) :
      \A i \in 1..Len(orders) :
        ~BeforeOrder(orders, i).s.lm.exited => OrderRecorded(BeforeOrder(orders, i), orders[i])

\* A batch completed an entry of two chunks: its location is in the update
\* map, the entry has all its bytes and no record of (tid, key) is left.
C27_Witness ==
  /\ update_index.state = "started"
  /\ logfile_manager_.key_to_location = EmptyMap
  /\ logfile_manager_.key_to_headersize = EmptyMap
  /\ \E h \in Hashes : \E i \in 1..Len(update_index.map_index[h]) :
       \E e \in EntriesAt(FileOf(dsk.main, FileIdOf(update_index.map_index[h][i])),
                          OffsetOf(update_index.map_index[h][i])) :
         e.size_value = SizeChunked /\ e.bytes = e.size_value


\* C28 - Compaction allocates in the main log manager exactly as many new
\* fileids as the number of files this compaction wrote, renames exactly
\* those compaction_ files onto the new fileids, and shifts every returned
\* location by the same offset, so that each shifted location names the
\* renamed file that holds its entry; at the first call of Compaction and at
\* every later call on the same engine.
C28_CompactionFileids ==
  [][RewriteStep =>
       /\ logfile_manager_'.sequence_fileid - logfile_manager_.sequence_fileid
            = Cardinality(FilesWritten)
       /\ FilesWritten = (logfile_manager_.sequence_fileid + 1)
                           ..logfile_manager_'.sequence_fileid
       /\ \A h \in Hashes : \A i \in 1..Len(compaction'.map_index_shifted[h]) :
            LET location == compaction'.map_index_shifted[h][i]
            IN FileIdOf(location) > logfile_manager_.sequence_fileid =>
                 /\ FileIdOf(location) \in FilesWritten
                 /\ \E e \in EntriesAt(dsk'.main[FileIdOf(location)], OffsetOf(location)) :
                      HashFunction(e.key) = h]_vars


\* Step 3 of the Compaction that has begun, as CompactionRewrite computes it.
DecisionOfCompaction ==
  CompactionStep3(
    NoDecision, logfile_manager_, dsk.main,
    Reverse(CompactionStep2(
              index_,
              Ascending(CompactionStep1(logfile_manager_, dsk.main,
                                        compaction.fileid_start,
                                        compaction.fileid_end)))),
    compaction.fileid_end)

\* The kept regular locations of hash h, as a set.
KeptRegular(decision, h) ==
  {decision.regular_keep[h][i] : i \in 1..Len(decision.regular_keep[h])}

\* The orders of step 6 of the Compaction that has begun.
OrdersOfCompaction(decision) ==
  CompactionStep6(logfile_manager_, dsk.main, Ascending(decision.fileids_compaction),
                  decision, CompactionStep4(decision.regular_keep)).orders

\* The Put orders that carry the key and the value stored at `location`.
OrdersFor(orders, location) ==
  {i \in 1..Len(orders) :
     \E e \in EntriesAt(FileOf(dsk.main, FileIdOf(location)), OffsetOf(location)) :
       orders[i].type = "put" /\ orders[i].key = e.key /\ orders[i].value = e.value}

\* What step 4 must build from `decision`, and what step 6 must emit.
ClustersBuilt(decision, clusters, orders) ==
  \A h \in Hashes :
    LET kept == KeptRegular(decision, h)
        smallest == CHOOSE l \in kept : \A m \in kept : ~LocationLess(m, l)
        cluster == clusters.hashedkeys_clusters[smallest]
    IN kept # {} =>
         /\ smallest \in DOMAIN clusters.hashedkeys_clusters
         /\ Len(cluster) = Cardinality(kept)
         /\ {cluster[i] : i \in 1..Len(cluster)} = kept
         /\ \A i, j \in 1..Len(cluster) : i < j => LocationLess(cluster[i], cluster[j])
         /\ \A l \in kept : l \in clusters.locations_secondary <=> l # smallest
         /\ \A l \in kept : Cardinality(OrdersFor(orders, l)) = 1

\* C29 - Cluster building in Compaction: for each hash the kept regular
\* locations form one cluster of those distinct locations sorted ascending,
\* the smallest is the cluster key and exactly the others are secondary, and
\* every kept regular location is emitted as a Put order with the key and
\* value stored at that location, exactly one order for each.
C29_ClusterBuilding ==
  (Running /\ compaction.pc = "begun" /\ ~DecisionOfCompaction.fault) =>
    ClustersBuilt(DecisionOfCompaction,
                  CompactionStep4(DecisionOfCompaction.regular_keep),
                  OrdersOfCompaction(DecisionOfCompaction))



\* The step is a Close followed by the open of a new process.
ReopenStep == hist'.reopens = hist.reopens + 1

\* The files whose header the step wrote: a file that was not in the
\* directory, or one that had no header yet.
FilesOpened ==
  {f \in DOMAIN dsk'.main :
     /\ dsk'.main[f].header.written
     /\ f \in DOMAIN dsk.main => ~dsk.main[f].header.written}

\* LoadDatabase leaves in the sequences the largest fileid and the largest
\* header timestamp of the files its readdir loop kept.
SequencesAtOpen ==
  (ReopenStep /\ hist'.observed # {}) =>
    /\ \E o \in hist'.observed :
         /\ logfile_manager_'.sequence_fileid = o.fileid
         /\ \A p \in hist'.observed : p.fileid <= o.fileid
    /\ \E o \in hist'.observed :
         /\ logfile_manager_'.sequence_timestamp = o.timestamp
         /\ \A p \in hist'.observed : p.timestamp <= o.timestamp

\* A fileid that enters the directory after the open is above the fileid
\* of every file loaded.
FileidsAboveLoaded ==
  \A f \in DOMAIN dsk'.main \ DOMAIN dsk.main : \A o \in hist'.observed :
    o.fileid \in hist'.loaded => f > o.fileid

\* The files of `opened` have a header timestamp above that of every file
\* loaded.
TimestampsAboveLoaded(opened) ==
  \A f \in opened : \A o \in hist'.observed :
    o.fileid \in hist'.loaded => dsk'.main[f].header.timestamp > o.timestamp

ReadOnlyOpens == snapshot.state = "taken" /\ snapshot'.state = "open"

\* The files of the directory a read-only engine indexed.
FilesIndexed(index_se) ==
  UNION {{FileIdOf(index_se[h][i]) : i \in 1..Len(index_se[h])} : h \in Hashes}

\* LoadDatabase of a read-only engine on the directory d.
ReadOnlyLoad(d, fileids_ignore, fileid_end) ==
  LoadDatabase(NewLogfileManager("log"), d, EmptyIndex, TRUE, fileids_ignore, fileid_end)

ActiveFileOpened ==
  /\ logfile_manager_'.has_file
  /\ ~logfile_manager_.has_file \/ logfile_manager_'.fileid # logfile_manager_.fileid

\* The fileids step 8 of Compaction takes for its renamed files.
FileidsOfCompaction ==
  (logfile_manager_.sequence_fileid + 1)..logfile_manager_'.sequence_fileid

\* C32 - no two segment files are given the same fileid: the fileid
\* OpenNewFile gives the active file is the fileid of no file of the
\* directory, and the fileids Compaction renames its outputs onto are those
\* of no file of the directory nor of the active file, under every
\* interleaving of the data worker with the compaction worker.
C32_FileidsUnique ==
  [][/\ ActiveFileOpened => logfile_manager_'.fileid \notin DOMAIN dsk.main
     /\ RewriteStep =>
          \A f \in FileidsOfCompaction :
            /\ f \notin DOMAIN dsk.main
            /\ logfile_manager_.has_file => f # logfile_manager_.fileid]_vars



\* The locations an index holds.
LocationsIn(index_se) ==
  UNION {{index_se[h][i] : i \in 1..Len(index_se[h])} : h \in Hashes}

\* The location names a file of the directory and an offset between its
\* header and the end of its entries.
InEntryRegion(location) ==
  /\ FileIdOf(location) \in DOMAIN dsk.main
  /\ \E file \in {dsk.main[FileIdOf(location)]} :
       /\ OffsetOf(location) >= SIZE_LOGFILE_HEADER
       /\ OffsetOf(location) < (IF file.footer.written THEN file.footer.offset_indexes
                                ELSE file.size)

\* C33 - in every state, every location held in index_ or index_compaction_
\* names a file that is in the directory and an offset inside the entry
\* region of that file; once Compaction has unlinked its input files no
\* location of index_ names one of them.
C33_NoDanglingLocations ==
  Running => \A location \in LocationsIn(index_) \cup LocationsIn(index_compaction_) :
               InEntryRegion(location)



\* C34 - whenever is_compaction_in_progress_ is false and the index worker
\* is not between its choice of the index and its inserts, index_compaction_
\* is empty: no location handed to the index worker stays outside index_
\* once the compaction that was running is over.
C34_NoStrandedUpdate ==
  (Running /\ ~is_compaction_in_progress_ /\ update_index.state # "picked") =>
    index_compaction_ = EmptyIndex



\* C35 - whenever Compaction has returned, with OK or with an error status,
\* is_compaction_in_progress_ is false: the flag is true only while a call
\* of Compaction is executing.
C35_FlagClearedOnReturn ==
  (Running /\ compaction.pc \in {"idle", "done", "failed"}) =>
    ~is_compaction_in_progress_



\* The compaction thread executes the ReleaseWriteLock() that follows the
\* loop of step 12.
MergeEnds ==
  threads.pc["compaction"] = "merge" /\ threads'.pc["compaction"] = "drain"

\* The compaction thread executes the ReleaseWriteLock() of the throttling.
MergeThrottles ==
  /\ threads.pc["compaction"] = "merge"
  /\ threads.bucket # 0
  /\ threads'.bucket = 0
  /\ threads.counter_iterations >= num_iterations_per_lock

\* C36 - in the bucketed merge of step 12 every ReleaseWriteLock is executed
\* by the compaction thread while it holds the write lock, and the write
\* lock is held while a bucket is erased and inserted again, for every
\* number of hashes in map_index_shifted.
C36_BalancedLocking ==
  [][/\ (MergeEnds \/ MergeThrottles) => threads.mutex_write_ = "compaction"
     /\ (threads.pc["compaction"] = "merge" /\ (threads.bucket # 0 \/ threads'.bucket # 0))
          => threads.mutex_write_ = "compaction"]_vars



\* Thread t is in the loop of AcquireWriteLock: it has locked mutex_write_
\* and waits on cv_read_ until num_readers_ is 0.
WaitsForReaders(t) == threads.acquiring[t] = "wait"

\* C37 - a thread that calls AcquireWriteLock returns from it, provided every
\* Get in its read section leaves it and every holder of the write lock
\* releases it: readers that arrive later cannot starve the waiting writer.
\* Stated as the safety property the progress rests on: while a thread waits
\* in AcquireWriteLock for the readers no Get enters its read section, so
\* num_readers_ only goes down to 0.
C37_WriterProgress ==
  [][\A t \in Workers \cup Closers :
       (WaitsForReaders(t) /\ WaitsForReaders(t)') =>
         threads'.num_readers_ <= threads.num_readers_]_vars



\* The live snapshots that pin file f: those that were live when step 14
\* of a Compaction found f obsolete.
SnapshotsPinning(f) ==
  IF f \in DOMAIN hist.owed THEN hist.owed[f] \cap hist.live ELSE {}

\* C38 - after any sequence of GetNewSnapshotData, Compaction and
\* ReleaseSnapshot, num_references_to_unused_files_[f] is, for every fileid
\* f, the number of live snapshots that pin f; a fileid whose file the last
\* release unlinked has no positive count left and is not in the
\* fileids_ignore of a later snapshot.
C38_RefcountConsistent ==
  \A f \in DOMAIN hist.owed \cup DOMAIN num_references_to_unused_files_ :
    /\ Lookup(num_references_to_unused_files_, f, 0) = Cardinality(SnapshotsPinning(f))
    /\ SnapshotsPinning(f) = {} => f \notin DOMAIN num_references_to_unused_files_



\* The files of the directory that have a location in the index and no
\* multi-chunk write in progress.  A file a crash has left with part of its footer is not at rest until the
\* next open has recovered it.
FilesAtRest ==
  {fileid \in FilesIndexed(index_) \cap DOMAIN dsk.main :
     /\ GetNumWritesInProgress(logfile_manager_.file_resource_manager, fileid) = 0
     /\ dsk.main[fileid].footer.written => HasValidFooter(dsk.main[fileid])}

\* C39 - for every fileid that has a location in the index, the size the
\* file resource manager records equals the size of the file on disk
\* whenever no write to that file is in progress.
C39_RecordedFileSize ==
  Running =>
    \A fileid \in FilesAtRest :
      GetFileSize(logfile_manager_.file_resource_manager, fileid) = dsk.main[fileid].size



\* The state of WriteOrdersAndFlushFile before order number i of a batch of
\* SpecChunks.
BeforeChunk(orders, i) == BeforeOrder(orders, i)

\* Order number i of `orders` is a chunk other than the first and no location
\* is recorded under its (tid, key) when its turn comes.
IsDropped(orders, i) ==
  /\ ~BeforeChunk(orders, i).s.lm.exited
  /\ orders[i].offset_chunk # 0
  /\ Lookup(BeforeChunk(orders, i).s.lm.key_to_location,
            <<orders[i].tid, orders[i].key>>, NoLocation) = NoLocation

Without(orders, i) == SubSeq(orders, 1, i - 1) \o SubSeq(orders, i + 1, Len(orders))

\* The iteration for a dropped order changes no file beyond what the head of
\* the loop does for any order (a new file is opened if there is none, the
\* buffer of the orders before it is flushed if the file is full), and
\* neither the update map, the counts of writes in progress nor the footer
\* indexes; every later order of the batch gets its iteration, and the batch
\* returns as many pairs per hash as it returns without the order (where
\* the later orders land may differ: the dropped order takes the turn at
\* the head of the loop that opens or closes the file).
OrderDropped(orders, i) ==
  LET acc == BeforeChunk(orders, i)
      head == FileForOrder(acc.s)
      acc1 == WriteOrder(acc, orders[i])
      start == [lm |-> logfile_manager_, files |-> dsk.main]
  IN /\ acc1.s.files = head.files
     /\ \A f \in DOMAIN acc.s.files :
          acc1.s.files[f].entries
            \in {acc.s.files[f].entries, acc.s.files[f].entries \o acc.s.lm.buffer_raw}
     /\ \A f \in DOMAIN acc1.s.files \ DOMAIN acc.s.files : acc1.s.files[f] = EmptyFile
     /\ acc1.map_index_out = acc.map_index_out
     /\ acc1.s.lm.file_resource_manager.num_writes_in_progress
          = acc.s.lm.file_resource_manager.num_writes_in_progress
     /\ acc1.s.lm.file_resource_manager.logindexes
          = acc.s.lm.file_resource_manager.logindexes
     /\ ~acc1.s.lm.exited
     /\ \A j \in (i + 1)..Len(orders) :
          ~BeforeChunk(orders, j).s.lm.exited
            => OrderRecorded(BeforeChunk(orders, j), orders[j])
     /\ \A h \in Hashes :
          Len(WriteOrdersAndFlushFile(start, orders).map_index_out[h])
            = Len(WriteOrdersAndFlushFile(start, Without(orders, i)).map_index_out[h])

\* C40 - a chunk with offset_chunk != 0 for which no first-chunk location is
\* recorded under (tid, key) is dropped: WriteOrdersAndFlushFile writes no
\* byte to any file for it, adds nothing to the update map even if it is a
\* last chunk, leaves the writes in progress and the footer index of every
\* file unchanged, and still processes the other orders of the batch.  Stated
\* of every order of every batch the data worker may be handed next.
C40_OrphanChunkDropped ==
  (Running /\ update_index.state = "idle") =>
    \A orders \in ChunkBatches(client, MaxBatch) :
      \A i \in 1..Len(orders) : IsDropped(orders, i) => OrderDropped(orders, i)

\* The data worker has written a batch of two orders: the first, a last
\* chunk, was dropped, and the second is in the update map.
C40_Witness ==
  /\ update_index.state = "started"
  /\ Len(hist.pending) = 2
  /\ hist.pending[1].location = NoLocation
  /\ hist.pending[2].location # NoLocation
  /\ \E h \in Hashes : update_index.map_index[h] = <<hist.pending[2].location>>

=============================================================================
